---------------------------- MODULE Spec2Model ----------------------------
(***************************************************************************)
(* Model of the cache replacement simulator of                             *)
(* src/CacheReplacementSimulator.cpp / src/CacheReplacementSimulator.hpp:  *)
(* the twelve replacement policies, the LFRU two-partition engine and the  *)
(* simulator's outer loop (setConfiguration, loadPageReferences,           *)
(* selectAlgorithm, runSimulation, processPageReference).                  *)
(*                                                                         *)
(* std::chrono::steady_clock::now() is modelled by the counter `steady`    *)
(* of the machine record: every reading is strictly later than the one     *)
(* before it (two readings that are stored in one page table are always    *)
(* separated by a return to processPageReference and its own two clock     *)
(* readings).  std::mt19937 is modelled by a free choice of the victim     *)
(* index in 0..numFrames-1.                                                *)
(***************************************************************************)
EXTENDS Integers, Sequences, FiniteSets

(***************************************************************************)
(* Program constants                                                       *)
(***************************************************************************)
PRIVILEGED_PARTITION_SIZE == 5

UNPRIVILEGED_PARTITION_SIZE == 5

\* Frame::page of a frame that holds no page
EMPTY == -1

\* std::numeric_limits<int>::max(), OPTIMAL's "never used again"
INT_MAX == 2147483647

\* numFrames{12}, the frame count of a simulator before setConfiguration
DefaultNumFrames == 12

\* maxPageCalls{1000}, and the maxCalls main() passes to setConfiguration
DefaultMaxPageCalls == 1000

\* hitIt->extra += 10000000 in aging()
AGING_HIT_BONUS == 10000000

(***************************************************************************)
(* Bounds of the model                                                     *)
(***************************************************************************)
\* page numbers of the short traces are 0..MaxPage
MaxPage == 2

\* length of the short traces
MaxRefs == 5

\* frame counts given to setConfiguration are 1..MaxFrames
MaxFrames == 2

\* number of references that follow the warm-up scan of an LFRU trace
MaxTail == 2

\* references in the trace that repeats one page
MaxRepeat == 28

\* a limit on the calls of processPageReference below MaxRefs
MaxCalls == 3

(***************************************************************************)
(* Frame, Partition, LFRUData, AlgorithmData                               *)
(***************************************************************************)
\* Frame::Frame(int idx) with the default member initialisers
Frame(idx) ==
    [index |-> idx, page |-> EMPTY, time |-> 0, extra |-> 0,
     frequency |-> 0, lastUsed |-> 0]

\* Partition::Partition: frames.resize(size) default-constructs each Frame,
\* so every frame of a partition has index -1
Partition(partitionSize) ==
    [i \in 1..partitionSize |->
        [Frame(-1) EXCEPT !.page = -1, !.frequency = 0, !.lastUsed = 0]]

hasSpace(frames) == \E i \in 1..Len(frames) : frames[i].page = -1

\* hasPage that stops one frame short of the end
hasPage_skipsLast(frames, page) ==
    \E i \in 1..(Len(frames) - 1) : frames[i].page = page

hasPage(frames, page) == \E i \in 1..Len(frames) : frames[i].page = page

LFRUData ==
    [privileged   |-> Partition(PRIVILEGED_PARTITION_SIZE),
     unprivileged |-> Partition(UNPRIVILEGED_PARTITION_SIZE)]

\* AlgorithmData::AlgorithmData(numFrames); lfruData is <<>> for nullptr
\* and a one-element sequence once it is allocated
AlgorithmData(n) ==
    [hits |-> 0, misses |-> 0,
     pageTable |-> [i \in 1..n |-> Frame(i - 1)],
     victimList |-> <<>>,
     lfruData |-> <<>>]

(***************************************************************************)
(* <algorithm> helpers used by the policies                                *)
(***************************************************************************)
\* FindPage with the search started one frame late
FindPage_skipsFirst(frames, page) ==
    LET S == {i \in 2..Len(frames) : frames[i].page = page}
    IN  IF S = {} THEN 0 ELSE CHOOSE i \in S : \A j \in S : i <= j

\* FindPage that returns the last frame holding page
FindPage_lastMatch(frames, page) ==
    LET S == {i \in 1..Len(frames) : frames[i].page = page}
    IN  IF S = {} THEN 0 ELSE CHOOSE i \in S : \A j \in S : i >= j

\* std::ranges::find_if(frames, f.page == page): position (1-based) of the
\* first frame holding page, 0 for end()
FindPage(frames, page) ==
    LET S == {i \in 1..Len(frames) : frames[i].page = page}
    IN  IF S = {} THEN 0 ELSE CHOOSE i \in S : \A j \in S : i <= j

\* the comparators with <= in place of <
KeyLess_orEqual(a, b) == a[1] < b[1] \/ (a[1] = b[1] /\ a[2] <= b[2])

\* the comparators, on keys <<major, minor>>
KeyLess(a, b) == a[1] < b[1] \/ (a[1] = b[1] /\ a[2] < b[2])

\* std::ranges::min_element: the scan keeps the first smallest element
RECURSIVE MinScan(_, _, _)
MinScan(keys, i, best) ==
    IF i > Len(keys) THEN best
    ELSE MinScan(keys, i + 1, IF KeyLess(keys[i], keys[best]) THEN i ELSE best)

\* std::ranges::max_element: the scan keeps the first largest element
RECURSIVE MaxScan(_, _, _)
MaxScan(keys, i, best) ==
    IF i > Len(keys) THEN best
    ELSE MaxScan(keys, i + 1, IF KeyLess(keys[best], keys[i]) THEN i ELSE best)

\* MinElement with max_element called in its place
MinElement_max(keys) == MaxScan(keys, 2, 1)

MinElement(keys) == MinScan(keys, 2, 1)

MaxElement(keys) == MaxScan(keys, 2, 1)

ByExtra(frames) == [i \in 1..Len(frames) |-> <<frames[i].extra, 0>>]

ByTime(frames) == [i \in 1..Len(frames) |-> <<frames[i].time, 0>>]

ByLastUsed(frames) == [i \in 1..Len(frames) |-> <<frames[i].lastUsed, 0>>]

\* the comparator of lfu and evictLFU without its tie-break on lastUsed
ByFrequencyOnly(frames) == [i \in 1..Len(frames) |-> <<frames[i].frequency, 0>>]

ByFrequencyThenLastUsed(frames) ==
    [i \in 1..Len(frames) |-> <<frames[i].frequency, frames[i].lastUsed>>]

(***************************************************************************)
(* The machine: process-wide state the policies share.                     *)
(*   steady      - the last reading of std::chrono::steady_clock           *)
(*   timeCounter - static int timeCounter of getCurrentTime()              *)
(*   clockHand   - static int clockHand of clock()                         *)
(*   clockExamined - passes through the loop body in clock()'s last victim *)
(*                 search (0 when the last call made none)                 *)
(*   clockCleared - the frames whose bit that search set from 1 to 0       *)
(* A policy takes (data, m, in) and returns [data, fault, m]; `in` holds   *)
(* the simulator members it reads: lastPageRef, counter, pageRefs,         *)
(* numFrames, and rnd, the value dist(rng) returns if it is called.        *)
(***************************************************************************)
Now(m) == [m EXCEPT !.steady = @ + 1]

\* getCurrentTime whose counter is two bits wide
getCurrentTime_wraps(m) == [m EXCEPT !.timeCounter = (@ + 1) % 4]

getCurrentTime(m) == [m EXCEPT !.timeCounter = @ + 1]

Ret(data, fault, m) == [data |-> data, fault |-> fault, m |-> m]

(***************************************************************************)
(* The policies that use the F-frame page table                            *)
(***************************************************************************)
\* the frame a policy writes when it loads lastPageRef with time and extra
Load3(f, page, time, extra) ==
    [f EXCEPT !.page = page, !.time = time, !.extra = extra]

\* optimal(), step 3: index of next use in pageRefs (0-based), INT_MAX if none
NextUse(page, in) ==
    LET S == {i \in (in.counter + 1)..(Len(in.pageRefs) - 1) :
                 in.pageRefs[i + 1].pageNum = page}
    IN  IF S = {} THEN INT_MAX ELSE CHOOSE i \in S : \A j \in S : i <= j

\* OptimalVictim that keeps the last of the frames with the largest distance
OptimalVictim_lastFurthest(frames, in) ==
    CHOOSE i \in 1..Len(frames) :
        \A j \in 1..Len(frames) :
            /\ NextUse(frames[j].page, in) <= NextUse(frames[i].page, in)
            /\ NextUse(frames[j].page, in) = NextUse(frames[i].page, in) => j <= i

\* optimal(), step 3: the first frame whose distance exceeds all before it
OptimalVictim(frames, in) ==
    MaxElement([i \in 1..Len(frames) |-> <<NextUse(frames[i].page, in), 0>>])

optimal(data, m, in) ==
    LET t     == data.pageTable
        hit   == FindPage(t, in.lastPageRef)
        empty == FindPage(t, -1)
        m1    == Now(m)
        v     == OptimalVictim(t, in)
    IN  IF hit # 0
        THEN Ret([data EXCEPT !.pageTable[hit].time = m1.steady,
                              !.pageTable[hit].extra = in.counter], FALSE, m1)
        ELSE IF empty # 0
        THEN Ret([data EXCEPT !.pageTable[empty] =
                      Load3(@, in.lastPageRef, m1.steady, in.counter)], TRUE, m1)
        ELSE Ret([data EXCEPT !.victimList = Append(@, t[v]),
                              !.pageTable[v] =
                      Load3(@, in.lastPageRef, m1.steady, in.counter)], TRUE, m1)

\* random that draws its victim without looking for an EMPTY frame
random_drawsOnEveryMiss(data, m, in) ==
    LET t     == data.pageTable
        hit   == FindPage(t, in.lastPageRef)
        m1    == Now(m)
        v     == in.rnd + 1
    IN  IF hit # 0
        THEN Ret([data EXCEPT !.pageTable[hit].time = m1.steady,
                              !.pageTable[hit].extra = in.counter], FALSE, m1)
        ELSE Ret([data EXCEPT !.victimList = Append(@, t[v]),
                              !.pageTable[v] =
                      Load3(@, in.lastPageRef, m1.steady, in.counter)], TRUE, m1)

random(data, m, in) ==
    LET t     == data.pageTable
        hit   == FindPage(t, in.lastPageRef)
        empty == FindPage(t, -1)
        m1    == Now(m)
        v     == in.rnd + 1
    IN  IF hit # 0
        THEN Ret([data EXCEPT !.pageTable[hit].time = m1.steady,
                              !.pageTable[hit].extra = in.counter], FALSE, m1)
        ELSE IF empty # 0
        THEN Ret([data EXCEPT !.pageTable[empty] =
                      Load3(@, in.lastPageRef, m1.steady, in.counter)], TRUE, m1)
        ELSE Ret([data EXCEPT !.victimList = Append(@, t[v]),
                              !.pageTable[v] =
                      Load3(@, in.lastPageRef, m1.steady, in.counter)], TRUE, m1)

\* fifo that refreshes time and extra on a hit, as lru does
fifo_touchesOnHit(data, m, in) ==
    LET t     == data.pageTable
        hit   == FindPage(t, in.lastPageRef)
        empty == FindPage(t, -1)
        m1    == Now(m)
        v     == MinElement(ByExtra(t))
    IN  IF hit # 0
        THEN Ret([data EXCEPT !.pageTable[hit].time = m1.steady,
                              !.pageTable[hit].extra = in.counter], FALSE, m1)
        ELSE IF empty # 0
        THEN Ret([data EXCEPT !.pageTable[empty] =
                      Load3(@, in.lastPageRef, m1.steady, in.counter)], TRUE, m1)
        ELSE Ret([data EXCEPT !.victimList = Append(@, t[v]),
                              !.pageTable[v] =
                      Load3(@, in.lastPageRef, m1.steady, in.counter)], TRUE, m1)

fifo(data, m, in) ==
    LET t     == data.pageTable
        hit   == FindPage(t, in.lastPageRef)
        empty == FindPage(t, -1)
        m1    == Now(m)
        v     == MinElement(ByExtra(t))
    IN  IF hit # 0
        THEN Ret(data, FALSE, m)
        ELSE IF empty # 0
        THEN Ret([data EXCEPT !.pageTable[empty] =
                      Load3(@, in.lastPageRef, m1.steady, in.counter)], TRUE, m1)
        ELSE Ret([data EXCEPT !.victimList = Append(@, t[v]),
                              !.pageTable[v] =
                      Load3(@, in.lastPageRef, m1.steady, in.counter)], TRUE, m1)

\* lru that does not refresh time on a hit
lru_keepsTimeOnHit(data, m, in) ==
    LET t     == data.pageTable
        hit   == FindPage(t, in.lastPageRef)
        empty == FindPage(t, -1)
        m1    == Now(m)
        v     == MinElement(ByTime(t))
    IN  IF hit # 0
        THEN Ret([data EXCEPT !.pageTable[hit].extra = in.counter], FALSE, m1)
        ELSE IF empty # 0
        THEN Ret([data EXCEPT !.pageTable[empty] =
                      Load3(@, in.lastPageRef, m1.steady, in.counter)], TRUE, m1)
        ELSE Ret([data EXCEPT !.victimList = Append(@, t[v]),
                              !.pageTable[v] =
                      Load3(@, in.lastPageRef, m1.steady, in.counter)], TRUE, m1)

lru(data, m, in) ==
    LET t     == data.pageTable
        hit   == FindPage(t, in.lastPageRef)
        empty == FindPage(t, -1)
        m1    == Now(m)
        v     == MinElement(ByTime(t))
    IN  IF hit # 0
        THEN Ret([data EXCEPT !.pageTable[hit].time = m1.steady,
                              !.pageTable[hit].extra = in.counter], FALSE, m1)
        ELSE IF empty # 0
        THEN Ret([data EXCEPT !.pageTable[empty] =
                      Load3(@, in.lastPageRef, m1.steady, in.counter)], TRUE, m1)
        ELSE Ret([data EXCEPT !.victimList = Append(@, t[v]),
                              !.pageTable[v] =
                      Load3(@, in.lastPageRef, m1.steady, in.counter)], TRUE, m1)

\* one more pass through the body of the do-while loop, in which the frame
\* under the hand had its bit set and lost it
Examined(s, hand) ==
    [s EXCEPT !.examined = @ + 1, !.cleared = @ \cup {hand}]

\* clock(), step 3: the do-while loop from the hand, and the eviction after
\* a full cycle; returns the table, the victim snapshot, the hand, the
\* number of passes through the loop body (frames examined) and the frames
\* whose bit the loop set from 1 to 0
RECURSIVE ClockSearch(_, _, _, _)
\* ClockSearch whose loop does not stop when the hand is back at startHand
ClockSearch_secondLap(t, hand, startHand, in) ==
    IF t[hand + 1].extra = 0
    THEN [table  |-> [t EXCEPT ![hand + 1].page = in.lastPageRef,
                               ![hand + 1].extra = 1],
          victim |-> t[hand + 1],
          hand   |-> (hand + 1) % in.numFrames,
          examined |-> 1,
          cleared  |-> {}]
    ELSE Examined(ClockSearch([t EXCEPT ![hand + 1].extra = 0],
                              (hand + 1) % in.numFrames, startHand, in),
                  hand)

\* ClockSearch whose loop goes past a frame with its bit set and leaves the
\* bit as it is
ClockSearch_keepsBits(t, hand, startHand, in) ==
    IF t[hand + 1].extra = 0 \/ (hand + 1) % in.numFrames = startHand
    THEN [table  |-> [t EXCEPT ![hand + 1].page = in.lastPageRef,
                               ![hand + 1].extra = 1],
          victim |-> t[hand + 1],
          hand   |-> (hand + 1) % in.numFrames,
          examined |-> 1,
          cleared  |-> {}]
    ELSE [ClockSearch(t, (hand + 1) % in.numFrames, startHand, in)
            EXCEPT !.examined = @ + 1]

ClockSearch(t, hand, startHand, in) ==
    LET evict(h) ==
            [table  |-> [t EXCEPT ![h + 1].page = in.lastPageRef,
                                  ![h + 1].extra = 1],
             victim |-> t[h + 1],
             hand   |-> (h + 1) % in.numFrames,
             examined |-> 1,
             cleared  |-> {}]
        next == (hand + 1) % in.numFrames
        t2   == [t EXCEPT ![hand + 1].extra = 0]
    IN  IF t[hand + 1].extra = 0
        THEN evict(hand)
        ELSE IF next # startHand
        THEN Examined(ClockSearch(t2, next, startHand, in), hand)
        ELSE [table  |-> [t2 EXCEPT ![next + 1].page = in.lastPageRef,
                                    ![next + 1].extra = 1],
              victim |-> t2[next + 1],
              hand   |-> (next + 1) % in.numFrames,
              examined |-> 1,
              cleared  |-> {hand}]

clock(data, m, in) ==
    LET t     == data.pageTable
        hand  == IF m.clockHand >= in.numFrames THEN 0 ELSE m.clockHand
        m1    == [m EXCEPT !.clockHand = hand, !.clockExamined = 0,
                           !.clockCleared = {}]
        hit   == FindPage(t, in.lastPageRef)
        empty == FindPage(t, -1)
        s     == ClockSearch(t, hand, hand, in)
    IN  IF hit # 0
        THEN Ret([data EXCEPT !.pageTable[hit].extra = 1], FALSE, m1)
        ELSE IF empty # 0
        THEN Ret([data EXCEPT !.pageTable[empty].page = in.lastPageRef,
                              !.pageTable[empty].extra = 1], TRUE, m1)
        ELSE Ret([data EXCEPT !.victimList = Append(@, s.victim),
                              !.pageTable = s.table],
                 TRUE, [m1 EXCEPT !.clockHand = s.hand,
                                  !.clockExamined = s.examined,
                                  !.clockCleared = s.cleared])

nfu(data, m, in) ==
    LET t     == data.pageTable
        hit   == FindPage(t, in.lastPageRef)
        empty == FindPage(t, -1)
        m1    == Now(m)
        v     == MinElement(ByExtra(t))
    IN  IF hit # 0
        THEN Ret([data EXCEPT !.pageTable[hit].extra = @ + 1,
                              !.pageTable[hit].time = m1.steady], FALSE, m1)
        ELSE IF empty # 0
        THEN Ret([data EXCEPT !.pageTable[empty] =
                      Load3(@, in.lastPageRef, m1.steady, 0)], TRUE, m1)
        ELSE Ret([data EXCEPT !.victimList = Append(@, t[v]),
                              !.pageTable[v] =
                      Load3(@, in.lastPageRef, m1.steady, 0)], TRUE, m1)

\* aging() without its step 1: no frame is aged
AgeAll_keepsExtra(frames) == frames

\* aging(), step 1 with a division that rounds up
AgeAll_roundsUp(frames) ==
    [i \in 1..Len(frames) |->
        IF frames[i].page # -1
        THEN [frames[i] EXCEPT !.extra = (@ + 1) \div 2]
        ELSE frames[i]]

\* aging(), step 1: frame.extra /= 2 for every frame that holds a page
AgeAll(frames) ==
    [i \in 1..Len(frames) |->
        IF frames[i].page # -1
        THEN [frames[i] EXCEPT !.extra = @ \div 2]
        ELSE frames[i]]

aging(data, m, in) ==
    LET t     == AgeAll(data.pageTable)
        aged  == [data EXCEPT !.pageTable = t]
        hit   == FindPage(t, in.lastPageRef)
        empty == FindPage(t, -1)
        m1    == Now(m)
        v     == MinElement(ByExtra(t))
    IN  IF hit # 0
        THEN Ret([aged EXCEPT !.pageTable[hit].extra = @ + AGING_HIT_BONUS,
                              !.pageTable[hit].time = m1.steady], FALSE, m1)
        ELSE IF empty # 0
        THEN Ret([aged EXCEPT !.pageTable[empty] =
                      Load3(@, in.lastPageRef, m1.steady, 0)], TRUE, m1)
        ELSE Ret([aged EXCEPT !.victimList = Append(@, t[v]),
                              !.pageTable[v] =
                      Load3(@, in.lastPageRef, m1.steady, 0)], TRUE, m1)

mru(data, m, in) ==
    LET t     == data.pageTable
        hit   == FindPage(t, in.lastPageRef)
        empty == FindPage(t, -1)
        m1    == Now(m)
        v     == MaxElement(ByTime(t))
    IN  IF hit # 0
        THEN Ret([data EXCEPT !.pageTable[hit].time = m1.steady], FALSE, m1)
        ELSE IF empty # 0
        THEN Ret([data EXCEPT !.pageTable[empty].page = in.lastPageRef,
                              !.pageTable[empty].time = m1.steady], TRUE, m1)
        ELSE Ret([data EXCEPT !.victimList = Append(@, t[v]),
                              !.pageTable[v].page = in.lastPageRef,
                              !.pageTable[v].time = m1.steady], TRUE, m1)

\* nru that does not refresh time on a hit
nru_keepsTimeOnHit(data, m, in) ==
    LET t     == data.pageTable
        hit   == FindPage(t, in.lastPageRef)
        empty == FindPage(t, -1)
        m1    == Now(m)
        v     == MinElement(ByTime(t))
    IN  IF hit # 0
        THEN Ret(data, FALSE, m1)
        ELSE IF empty # 0
        THEN Ret([data EXCEPT !.pageTable[empty].page = in.lastPageRef,
                              !.pageTable[empty].time = m1.steady], TRUE, m1)
        ELSE Ret([data EXCEPT !.victimList = Append(@, t[v]),
                              !.pageTable[v].page = in.lastPageRef,
                              !.pageTable[v].time = m1.steady], TRUE, m1)

nru(data, m, in) ==
    LET t     == data.pageTable
        hit   == FindPage(t, in.lastPageRef)
        empty == FindPage(t, -1)
        m1    == Now(m)
        v     == MinElement(ByTime(t))
    IN  IF hit # 0
        THEN Ret([data EXCEPT !.pageTable[hit].time = m1.steady], FALSE, m1)
        ELSE IF empty # 0
        THEN Ret([data EXCEPT !.pageTable[empty].page = in.lastPageRef,
                              !.pageTable[empty].time = m1.steady], TRUE, m1)
        ELSE Ret([data EXCEPT !.victimList = Append(@, t[v]),
                              !.pageTable[v].page = in.lastPageRef,
                              !.pageTable[v].time = m1.steady], TRUE, m1)

mfu(data, m, in) ==
    LET t     == data.pageTable
        hit   == FindPage(t, in.lastPageRef)
        empty == FindPage(t, -1)
        v     == MaxElement(ByExtra(t))
    IN  IF hit # 0
        THEN Ret([data EXCEPT !.pageTable[hit].extra = @ + 1], FALSE, m)
        ELSE IF empty # 0
        THEN Ret([data EXCEPT !.pageTable[empty].page = in.lastPageRef,
                              !.pageTable[empty].extra = 1], TRUE, m)
        ELSE Ret([data EXCEPT !.victimList = Append(@, t[v]),
                              !.pageTable[v].page = in.lastPageRef,
                              !.pageTable[v].extra = 1], TRUE, m)

lfu(data, m, in) ==
    LET t     == data.pageTable
        hit   == FindPage(t, in.lastPageRef)
        empty == FindPage(t, -1)
        m1    == getCurrentTime(m)
        v     == MinElement(ByFrequencyThenLastUsed(t))
    IN  IF hit # 0
        THEN Ret([data EXCEPT !.pageTable[hit].frequency = @ + 1,
                              !.pageTable[hit].lastUsed = m1.timeCounter],
                 FALSE, m1)
        ELSE IF empty # 0
        THEN Ret([data EXCEPT !.pageTable[empty].page = in.lastPageRef,
                              !.pageTable[empty].frequency = 1,
                              !.pageTable[empty].lastUsed = m1.timeCounter],
                 TRUE, m1)
        ELSE Ret([data EXCEPT !.victimList = Append(@, t[v]),
                              !.pageTable[v].page = in.lastPageRef,
                              !.pageTable[v].frequency = 1,
                              !.pageTable[v].lastUsed = m1.timeCounter],
                 TRUE, m1)

(***************************************************************************)
(* LFRU and its helpers.  A helper takes the partition's frames and the    *)
(* machine and returns [frames, m] (and the page it removed).              *)
(***************************************************************************)
\* updateLRU that counts the use as well
updateLRU_countsUse(frames, page, m) ==
    LET it == FindPage(frames, page)
        m1 == getCurrentTime(m)
    IN  IF it # 0
        THEN [frames |-> [frames EXCEPT ![it].lastUsed = m1.timeCounter,
                                        ![it].frequency = @ + 1], m |-> m1]
        ELSE [frames |-> frames, m |-> m]

updateLRU(frames, page, m) ==
    LET it == FindPage(frames, page)
        m1 == getCurrentTime(m)
    IN  IF it # 0
        THEN [frames |-> [frames EXCEPT ![it].lastUsed = m1.timeCounter], m |-> m1]
        ELSE [frames |-> frames, m |-> m]

updateLFU(frames, page, m) ==
    LET it == FindPage(frames, page)
    IN  IF it # 0
        THEN [frames |-> [frames EXCEPT ![it].frequency = @ + 1], m |-> m]
        ELSE [frames |-> frames, m |-> m]

\* the frame removeFromPartition, evictLFU and demoteLRU leave behind
Cleared(f, time) ==
    [f EXCEPT !.page = -1, !.frequency = 0, !.lastUsed = 0, !.extra = 0,
              !.time = time]

\* removeFromPartition that leaves the page where it is
removeFromPartition_keepsPage(frames, page, m) == [frames |-> frames, m |-> m]

removeFromPartition(frames, page, m) ==
    LET it == FindPage(frames, page)
        m1 == Now(m)
    IN  IF it # 0
        THEN [frames |-> [frames EXCEPT ![it] = Cleared(@, m1.steady)], m |-> m1]
        ELSE [frames |-> frames, m |-> m]

insertIntoPartition(frames, page, m) ==
    LET it == FindPage(frames, -1)
        m1 == getCurrentTime(m)
    IN  IF it # 0
        THEN [frames |-> [frames EXCEPT ![it].page = page,
                                        ![it].lastUsed = m1.timeCounter,
                                        ![it].frequency = 1],
              m |-> m1]
        ELSE [frames |-> frames, m |-> m]

evictLFU(frames, m) ==
    LET v  == MinElement(ByFrequencyThenLastUsed(frames))
        m1 == Now(m)
    IN  IF Len(frames) # 0
        THEN [frames |-> [frames EXCEPT ![v] = Cleared(@, m1.steady)],
              m |-> m1, page |-> frames[v].page]
        ELSE [frames |-> frames, m |-> m, page |-> -1]

\* demoteLRU that takes the frame used last
demoteLRU_newest(frames, m) ==
    LET v  == MaxElement(ByLastUsed(frames))
        m1 == Now(m)
    IN  IF Len(frames) # 0
        THEN [frames |-> [frames EXCEPT ![v] = Cleared(@, m1.steady)],
              m |-> m1, page |-> frames[v].page]
        ELSE [frames |-> frames, m |-> m, page |-> -1]

demoteLRU(frames, m) ==
    LET v  == MinElement(ByLastUsed(frames))
        m1 == Now(m)
    IN  IF Len(frames) # 0
        THEN [frames |-> [frames EXCEPT ![v] = Cleared(@, m1.steady)],
              m |-> m1, page |-> frames[v].page]
        ELSE [frames |-> frames, m |-> m, page |-> -1]

\* the partitions and the machine after a helper wrote one partition
SetPrivileged(lf, i) == [lf |-> [lf EXCEPT !.privileged = i.frames], m |-> i.m]

SetUnprivileged(lf, i) == [lf |-> [lf EXCEPT !.unprivileged = i.frames], m |-> i.m]

\* insertIntoPartition(lf.privileged, page) on s = [lf, m]
InsertPrivileged(s, page) ==
    SetPrivileged(s.lf, insertIntoPartition(s.lf.privileged, page, s.m))

\* insertIntoPartition(lf.unprivileged, demotedPage) after e = [frames, m] is
\* what the eviction (if any) left of unprivileged
InsertDemoted(lf, demotedPage, e) ==
    SetUnprivileged(lf, insertIntoPartition(e.frames, demotedPage, e.m))

\* if (!lf.unprivileged.hasSpace()) evictLFU(lf.unprivileged);
\* insertIntoPartition(lf.unprivileged, demotedPage), with d = demoteLRU's
\* result
ReceiveDemoted(lf, d) ==
    InsertDemoted([lf EXCEPT !.privileged = d.frames], d.page,
                  IF ~hasSpace(lf.unprivileged)
                  THEN evictLFU(lf.unprivileged, d.m)
                  ELSE [frames |-> lf.unprivileged, m |-> d.m])

\* the block lfru() and handlePageInsertion() share: demote the LRU frame of
\* privileged into unprivileged, evicting from unprivileged when it is full
\* (lines 2066-2071 and 2134-2139); returns [lf, m]
DemoteIntoUnprivileged(lf, m) == ReceiveDemoted(lf, demoteLRU(lf.privileged, m))

handlePageInsertion(lf, page, m) ==
    IF hasSpace(lf.privileged)
    THEN InsertPrivileged([lf |-> lf, m |-> m], page)
    ELSE InsertPrivileged(DemoteIntoUnprivileged(lf, m), page)

\* a promotion that puts the page back where it was
PromoteRemoved_staysBelow(s, page) ==
    SetUnprivileged(s.lf, insertIntoPartition(s.lf.unprivileged, page, s.m))

\* lfru(), step 2 after removeFromPartition returned s = [lf, m]
PromoteRemoved(s, page) ==
    IF ~hasSpace(s.lf.privileged)
    THEN InsertPrivileged(DemoteIntoUnprivileged(s.lf, s.m), page)
    ELSE InsertPrivileged(s, page)

\* an lfru that also records the page in frame 0 of its page table
LfruRet_loadsTable(data, s, fault) ==
    Ret([data EXCEPT !.lfruData = <<s.lf>>,
                     !.pageTable[1].page = s.lf.privileged[1].page], fault, s.m)

\* what lfru() returns once the partitions and the machine are s = [lf, m]
LfruRet(data, s, fault) == Ret([data EXCEPT !.lfruData = <<s.lf>>], fault, s.m)

\* lfru without step 1, the look into the privileged partition
lfru_skipsPrivileged(data, m, in) ==
    IF hasPage(data.lfruData[1].unprivileged, in.lastPageRef)
    THEN LfruRet(data,
             PromoteRemoved(
                 SetUnprivileged(data.lfruData[1],
                     removeFromPartition(data.lfruData[1].unprivileged,
                                         in.lastPageRef, m)),
                 in.lastPageRef),
             FALSE)
    ELSE LfruRet(data,
             handlePageInsertion(data.lfruData[1], in.lastPageRef, m), TRUE)

\* lfru that calls updateLFU as well on a hit in the privileged partition
lfru_countsHit(data, m, in) ==
    IF hasPage(data.lfruData[1].privileged, in.lastPageRef)
    THEN LfruRet(data,
             SetPrivileged(data.lfruData[1],
                 updateLFU(updateLRU(data.lfruData[1].privileged,
                                     in.lastPageRef, m).frames,
                           in.lastPageRef,
                           updateLRU(data.lfruData[1].privileged,
                                     in.lastPageRef, m).m)),
             FALSE)
    ELSE lfru_skipsPrivileged(data, m, in)

lfru(data, m, in) ==
    LET lf == IF data.lfruData = <<>> THEN LFRUData ELSE data.lfruData[1]
    IN  IF hasPage(lf.privileged, in.lastPageRef)
        THEN LfruRet(data,
                 SetPrivileged(lf, updateLRU(lf.privileged, in.lastPageRef, m)),
                 FALSE)
        ELSE IF hasPage(lf.unprivileged, in.lastPageRef)
        THEN LfruRet(data,
                 PromoteRemoved(
                     SetUnprivileged(lf,
                         removeFromPartition(lf.unprivileged, in.lastPageRef, m)),
                     in.lastPageRef),
                 FALSE)
        ELSE LfruRet(data, handlePageInsertion(lf, in.lastPageRef, m), TRUE)

(***************************************************************************)
(* The simulator                                                           *)
(***************************************************************************)
VARIABLES
    numFrames,      \* CacheReplacementSimulator::numFrames
    maxPageCalls,   \* CacheReplacementSimulator::maxPageCalls
    counter,        \* CacheReplacementSimulator::counter
    lastPageRef,    \* CacheReplacementSimulator::lastPageRef
    pageRefs,       \* CacheReplacementSimulator::pageRefs
    algorithms,     \* CacheReplacementSimulator::algorithms
    machine,        \* steady clock, getCurrentTime's counter, clock's hand
                    \* and the loop passes of clock's last victim search
    returned,       \* label -> what the policy's last call returned
    pc,             \* where the caller of the simulator is
    algoCode,       \* the argument of the last call of selectAlgorithm
    alone,          \* label -> the policy run on its own, with nothing else
                    \* selected, from the state setConfiguration left (kept
                    \* for the policies that are selected here)
    rerun,          \* setConfiguration was called again after a run
    previous,       \* what the run before that call ended with
    requested,      \* the arguments of the last call of setConfiguration
    sinceCleared,   \* frame -> the evictions clock() has made since its
                    \* loop last set the frame's bit from 1 to 0
    stale           \* runSimulation has been called again on the tables
                    \* and the list that a completed run has left

vars ==
    <<numFrames, maxPageCalls, counter, lastPageRef, pageRefs, algorithms,
      machine, returned, pc, algoCode, alone, rerun, previous, requested,
      sinceCleared, stale>>

\* the labels, in the order initializeAlgorithms() pushes them
Labels ==
    <<"OPTIMAL", "RANDOM", "FIFO", "LRU", "CLOCK", "NFU", "AGING", "MRU",
      "NRU", "MFU", "LFU", "LFRU">>

\* the lambda initializeAlgorithms() binds to each label
AlgoFunc(label, data, m, in) ==
    CASE label = "OPTIMAL" -> optimal(data, m, in)
      [] label = "RANDOM"  -> random(data, m, in)
      [] label = "FIFO"    -> fifo(data, m, in)
      [] label = "LRU"     -> lru(data, m, in)
      [] label = "CLOCK"   -> clock(data, m, in)
      [] label = "NFU"     -> nfu(data, m, in)
      [] label = "AGING"   -> aging(data, m, in)
      [] label = "MRU"     -> mru(data, m, in)
      [] label = "NRU"     -> nru(data, m, in)
      [] label = "MFU"     -> mfu(data, m, in)
      [] label = "LFU"     -> lfu(data, m, in)
      [] label = "LFRU"    -> lfru(data, m, in)

initializeAlgorithms(n) ==
    [i \in 1..Len(Labels) |->
        [label    |-> Labels[i],
         selected |-> FALSE,
         data     |-> IF Labels[i] = "LFRU"
                      THEN [AlgorithmData(n) EXCEPT !.lfruData = <<LFRUData>>]
                      ELSE AlgorithmData(n)]]

LabelSet == {Labels[i] : i \in 1..Len(Labels)}

NoneReturned == [l \in {Labels[i] : i \in 1..Len(Labels)} |-> "none"]

\* the policy with a label, wherever the sort has put it
Policy(label) ==
    algorithms[CHOOSE i \in 1..Len(algorithms) : algorithms[i].label = label]

PageSeq(frames) == [i \in 1..Len(frames) |-> frames[i].page]

\* every policy on its own in a simulator that setConfiguration(n) has just
\* left, in a process whose machine is m
AloneAfterConfiguration(n, m) ==
    [l \in LabelSet |->
        [data     |-> IF l = "LFRU"
                      THEN [AlgorithmData(n) EXCEPT !.lfruData = <<LFRUData>>]
                      ELSE AlgorithmData(n),
         m        |-> m,
         returned |-> "none"]]

\* what a run ended with: frame count, code and, for each label, whether it
\* was selected, its counters and the pages of its victim log
NoRun ==
    [numFrames |-> 0, algoCode |-> "", pageRefs |-> <<>>,
     results |-> [l \in LabelSet |->
                    [selected |-> FALSE, hits |-> 0, misses |-> 0,
                     victims |-> <<>>]]]

RunResults ==
    [numFrames |-> numFrames, algoCode |-> algoCode, pageRefs |-> pageRefs,
     results |-> [l \in LabelSet |->
                    [selected |-> Policy(l).selected,
                     hits     |-> Policy(l).data.hits,
                     misses   |-> Policy(l).data.misses,
                     victims  |-> PageSeq(Policy(l).data.victimList)]]]

\* the state after CacheReplacementSimulator::CacheReplacementSimulator()
Init ==
    /\ numFrames = DefaultNumFrames
    /\ maxPageCalls = DefaultMaxPageCalls
    /\ counter = 0
    /\ lastPageRef = -1
    /\ pageRefs = <<>>
    /\ algorithms = initializeAlgorithms(DefaultNumFrames)
    /\ machine = [steady |-> 0, timeCounter |-> 0, clockHand |-> 0,
                  clockExamined |-> 0, clockCleared |-> {}]
    /\ returned = NoneReturned
    /\ pc = "constructed"
    /\ algoCode = ""
    /\ alone = AloneAfterConfiguration(DefaultNumFrames, machine)
    /\ rerun = FALSE
    /\ previous = NoRun
    /\ requested = [frames |-> DefaultNumFrames,
                    maxCalls |-> DefaultMaxPageCalls]
    /\ sinceCleared = [i \in 1..DefaultNumFrames |-> 0]
    /\ stale = FALSE

(***************************************************************************)
(* The inputs: a trace file, a frame count and an algorithm code.          *)
(***************************************************************************)
\* what loadPageReferences makes of a file holding these page numbers
PageRefsOf(pages) == [i \in 1..Len(pages) |-> [pageNum |-> pages[i], pid |-> 0]]

\* every trace of MaxRefs references to the pages 0..MaxPage
ShortTraces == {t : t \in [1..MaxRefs -> 0..MaxPage]}

\* the reference string of the tests and of scenario 1
BeladyTrace == <<7, 0, 1, 2, 0, 3, 0, 4, 2, 3, 0, 3, 2, 1, 2, 0, 1, 7, 0, 1>>

BeladyFrames == 3

\* LFRU traces: a scan that fills both partitions, then MaxTail references to
\* resident pages or to two pages that are new
LfruCapacity == PRIVILEGED_PARTITION_SIZE + UNPRIVILEGED_PARTITION_SIZE

LfruTraces ==
    {[i \in 1..LfruCapacity |-> i - 1] \o tail :
        tail \in [1..MaxTail -> 0..(LfruCapacity + 1)]}

\* one page referenced MaxRepeat times
RepeatTrace == [i \in 1..MaxRepeat |-> 0]

\* the tests' trace with fewer pages than frames, and its frame count
ExcessFramesTrace == <<0, 1, 0, 1>>

ExcessFrames == 10

\* the short traces in which the pages appear for the first time in the
\* order 0, 1, 2, ...: every trace is one of these up to a renaming of its
\* pages, and the policies only compare page numbers for equality
CanonicalTraces ==
    {t \in ShortTraces :
        /\ t[1] = 0
        /\ \A i \in 2..Len(t) : \E j \in 1..(i - 1) : t[j] >= t[i] - 1}

\* the length of the traces on which AGING is compared with a register of
\* RegisterBits bits per frame
RegisterRefs == 8

RegisterBits == 8

\* the traces of RegisterRefs references in which the pages appear for the
\* first time in the order 0, 1, 2, ...; their prefixes are the shorter
\* traces
RegisterTraces ==
    {t \in [1..RegisterRefs -> 0..MaxPage] :
        /\ t[1] = 0
        /\ \A i \in 2..RegisterRefs : \E j \in 1..(i - 1) : t[j] >= t[i] - 1}

Codes == {"O", "R", "F", "L", "C", "N", "A", "M", "n", "m", "l", "f", "a"}

\* a code selectAlgorithm() has no case for: the 'X' of the tests
InvalidCodes == {"X"}

\* the runs the model makes: all policies side by side on the short traces,
\* FIFO, LRU or OPTIMAL alone on the tests' trace, LFRU alone on its traces,
\* a counting policy alone on the repeated page, LRU alone with more
\* frames than pages, CLOCK alone when the
\* configuration limits the calls, an unknown code on a canonical trace, and
\* AGING alone on the traces of RegisterRefs references
IsScenario(pages, frames, code) ==
    \/ pages \in ShortTraces /\ frames \in 1..MaxFrames /\ code = "a"
    \/ pages = BeladyTrace /\ frames = BeladyFrames /\ code \in {"F", "L", "O"}
    \/ pages \in LfruTraces /\ frames \in {MaxFrames, LfruCapacity} /\ code = "f"
    \/ pages = RepeatTrace /\ frames = MaxFrames /\ code \in {"N", "A", "m", "l"}
    \/ pages = ExcessFramesTrace /\ frames = ExcessFrames /\ code = "L"
    \/ /\ pages \in CanonicalTraces /\ frames \in 1..MaxFrames
       /\ requested.maxCalls < DefaultMaxPageCalls /\ code = "C"
    \/ pages \in CanonicalTraces /\ frames \in 1..MaxFrames /\ code \in InvalidCodes
    \/ /\ code = "A" /\ Len(pages) = RegisterRefs /\ frames \in 1..MaxFrames
       /\ pages \in RegisterTraces

Traces ==
    ShortTraces \cup {BeladyTrace, RepeatTrace, ExcessFramesTrace} \cup LfruTraces

FrameCounts == (1..MaxFrames) \cup {BeladyFrames, LfruCapacity, ExcessFrames}

\* frame counts a caller can pass: those of the model, and the 0 and the -5
\* of the tests
FrameArguments == {-5, 0} \cup (1..MaxFrames)

\* limits a caller can pass: none, one that cuts the short traces, and the
\* default
CallLimits == {0, MaxCalls, DefaultMaxPageCalls}

(***************************************************************************)
(* setConfiguration, loadPageReferences, selectAlgorithm                   *)
(***************************************************************************)
\* std::max that returns its second argument
Max_second(a, b) == b

Max(a, b) == IF a > b THEN a ELSE b

\* std::min that returns its second argument
Min_second(a, b) == b

Min(a, b) == IF a < b THEN a ELSE b

\* setConfiguration() on a simulator that has not run yet
SetConfiguration(frames, maxCalls) ==
    /\ pc = "constructed"
    /\ numFrames' = Max(1, frames)
    /\ maxPageCalls' = maxCalls
    /\ algorithms' = initializeAlgorithms(Max(1, frames))
    /\ alone' = AloneAfterConfiguration(Max(1, frames), machine)
    /\ requested' = [frames |-> frames, maxCalls |-> maxCalls]
    /\ sinceCleared' = [i \in 1..Max(1, frames) |-> 0]
    /\ stale' = FALSE
    /\ pc' = "configured"
    /\ UNCHANGED <<counter, lastPageRef, pageRefs, machine, returned,
                   algoCode, rerun, previous>>

\* setConfiguration() after runSimulation() has returned: the trace stays
\* loaded, the statics of the process stay as the run left them
Reconfigure(frames, maxCalls) ==
    /\ pc = "done"
    /\ ~rerun
    /\ numFrames' = Max(1, frames)
    /\ maxPageCalls' = maxCalls
    /\ algorithms' = initializeAlgorithms(Max(1, frames))
    /\ alone' = AloneAfterConfiguration(Max(1, frames), machine)
    /\ rerun' = TRUE
    /\ previous' = RunResults
    /\ requested' = [frames |-> frames, maxCalls |-> maxCalls]
    /\ sinceCleared' = [i \in 1..Max(1, frames) |-> 0]
    /\ stale' = FALSE
    /\ pc' = "loaded"
    /\ UNCHANGED <<counter, lastPageRef, pageRefs, machine, returned,
                   algoCode>>

LoadPageReferences(pages) ==
    /\ pc = "configured"
    /\ \E code \in Codes : IsScenario(pages, numFrames, code)
    /\ pageRefs' = PageRefsOf(pages)
    /\ pc' = "loaded"
    /\ UNCHANGED <<numFrames, maxPageCalls, counter, lastPageRef, algorithms,
                   machine, returned, algoCode, alone, rerun, previous,
                   requested, sinceCleared, stale>>

\* the position in the algorithms vector that the switch of selectAlgorithm
\* selects for a code; 0 for 'a' and for a code it does not know
CodeIndex(code) ==
    CASE code = "O" -> 1  [] code = "R" -> 2  [] code = "F" -> 3
      [] code = "L" -> 4  [] code = "C" -> 5  [] code = "N" -> 6
      [] code = "A" -> 7  [] code = "M" -> 8  [] code = "n" -> 9
      [] code = "m" -> 10 [] code = "l" -> 11 [] code = "f" -> 12
      [] OTHER -> 0

\* selectAlgorithm that throws for an unknown code before it deselects
selectAlgorithm_keepsSelection(algs, code) ==
    IF code # "a" /\ CodeIndex(code) = 0
    THEN algs
    ELSE [i \in 1..Len(algs) |->
             [algs[i] EXCEPT !.selected = (code = "a" \/ CodeIndex(code) = i)]]

\* lines 1303-1306 deselect every policy, the switch selects by position;
\* for an unknown code nothing is selected when the default case throws
selectAlgorithm(algs, code) ==
    [i \in 1..Len(algs) |->
        [algs[i] EXCEPT !.selected = (code = "a" \/ CodeIndex(code) = i)]]

SelectAlgorithm(code) ==
    /\ pc = "loaded"
    /\ IsScenario([i \in 1..Len(pageRefs) |-> pageRefs[i].pageNum], numFrames, code)
    /\ algorithms' = selectAlgorithm(algorithms, code)
    /\ algoCode' = code
    /\ pc' = IF code \in Codes THEN "selected" ELSE "invalid_argument"
    /\ UNCHANGED <<numFrames, maxPageCalls, counter, lastPageRef, pageRefs,
                   machine, returned, alone, rerun, previous, requested,
                   sinceCleared, stale>>

\* selectAlgorithm() after runSimulation() has returned
Reselect(code) ==
    /\ pc = "done"
    /\ algorithms' = selectAlgorithm(algorithms, code)
    /\ algoCode' = code
    /\ pc' = IF code \in Codes THEN "reselected" ELSE "invalid_argument"
    /\ UNCHANGED <<numFrames, maxPageCalls, counter, lastPageRef, pageRefs,
                   machine, returned, alone, rerun, previous, requested,
                   sinceCleared, stale>>

(***************************************************************************)
(* runSimulation and processPageReference                                  *)
(***************************************************************************)
\* the loop of processPageReference over the algorithms vector, from
\* position i on: call each selected policy, then count its hit or miss
RECURSIVE RunSelected(_, _, _, _, _)
\* Account for a policy that has counted its miss itself
Account_countsMissTwice(algs, i, in, ret, r) ==
    RunSelected(
        [algs EXCEPT ![i].data =
            IF r.fault
            THEN [r.data EXCEPT !.misses = @ + 2]
            ELSE [r.data EXCEPT !.hits = @ + 1]],
        i + 1, r.m, in,
        [ret EXCEPT ![algs[i].label] = IF r.fault THEN "fault" ELSE "hit"])

\* lines 1375-1379: count the hit or the miss that r, the policy's return,
\* reports, and go on with the next policy
Account(algs, i, in, ret, r) ==
    RunSelected(
        [algs EXCEPT ![i].data =
            IF r.fault
            THEN [r.data EXCEPT !.misses = @ + 1]
            ELSE [r.data EXCEPT !.hits = @ + 1]],
        i + 1, r.m, in,
        [ret EXCEPT ![algs[i].label] = IF r.fault THEN "fault" ELSE "hit"])

RunSelected(algs, i, m, in, ret) ==
    IF i > Len(algs)
    THEN [algorithms |-> algs, m |-> m, returned |-> ret]
    ELSE IF ~algs[i].selected
    THEN RunSelected(algs, i + 1, m, in, ret)
    ELSE Account(algs, i, in, ret, AlgoFunc(algs[i].label, algs[i].data, m, in))

processPageReference(pageRef, rnd) ==
    RunSelected(algorithms, 1, machine,
                [lastPageRef |-> pageRef, counter |-> counter,
                 pageRefs |-> pageRefs, numFrames |-> numFrames, rnd |-> rnd],
                NoneReturned)

\* lines 1375-1379 for the policy on its own: r is what it returned
AccountAlone(r) ==
    [data     |-> IF r.fault
                  THEN [r.data EXCEPT !.misses = @ + 1]
                  ELSE [r.data EXCEPT !.hits = @ + 1],
     m        |-> r.m,
     returned |-> IF r.fault THEN "fault" ELSE "hit"]

\* processPageReference() in each of the simulators that run on its own one
\* of the policies selected here: same reference, same counter, same draw
\* of the generator
processPageReferenceAlone(pageRef, rnd) ==
    [l \in LabelSet |->
        IF Policy(l).selected
        THEN AccountAlone(
                 AlgoFunc(l, alone[l].data, alone[l].m,
                          [lastPageRef |-> pageRef, counter |-> counter,
                           pageRefs |-> pageRefs, numFrames |-> numFrames,
                           rnd |-> rnd]))
        ELSE alone[l]]

\* AlgorithmData::getHitRatio() as the fraction <<numerator, denominator>>
getHitRatio(data) ==
    IF data.hits + data.misses > 0
    THEN <<data.hits, data.hits + data.misses>>
    ELSE <<0, 1>>

\* the comparator of the sort: a's hit ratio is greater than b's
RatioGreater(a, b) ==
    LET ra == getHitRatio(a.data)
        rb == getHitRatio(b.data)
    IN  ra[1] * rb[2] > rb[1] * ra[2]

\* std::ranges::sort on the 12 policies: below 16 elements libstdc++ sorts
\* by insertion, moving an element left while it compares before its
\* neighbour
RECURSIVE LinearInsert(_, _)
LinearInsert(sorted, val) ==
    IF sorted = <<>> \/ ~RatioGreater(val, sorted[Len(sorted)])
    THEN Append(sorted, val)
    ELSE Append(LinearInsert(SubSeq(sorted, 1, Len(sorted) - 1), val),
                sorted[Len(sorted)])

RECURSIVE InsertionSort(_, _, _)
InsertionSort(algs, i, sorted) ==
    IF i > Len(algs) THEN sorted
    ELSE InsertionSort(algs, i + 1, LinearInsert(sorted, algs[i]))

SortByHitRatio(algs) == InsertionSort(algs, 1, <<>>)

\* runSimulation() up to its loop; a caller that has caught the exception
\* of selectAlgorithm() can call it as well, and so can one that has called
\* setConfiguration after a run and has the trace of that run loaded
RunSimulationBegin ==
    /\ pc \in {"selected", "invalid_argument"} \/ (pc = "loaded" /\ rerun)
    /\ counter' = 0
    /\ maxPageCalls' = Min(maxPageCalls, Len(pageRefs))
    /\ pc' = "running"
    /\ UNCHANGED <<numFrames, lastPageRef, pageRefs, algorithms, machine,
                   returned, algoCode, alone, rerun, previous, requested,
                   sinceCleared, stale>>

\* a runSimulation that would start every policy from fresh data
RunSimulationAgain_resets ==
    /\ pc = "reselected"
    /\ ~stale
    /\ stale' = TRUE
    /\ previous' = RunResults
    /\ counter' = 0
    /\ maxPageCalls' = Min(maxPageCalls, Len(pageRefs))
    /\ algorithms' =
          [i \in 1..Len(algorithms) |->
              [algorithms[i] EXCEPT !.data =
                  IF algorithms[i].label = "LFRU"
                  THEN [AlgorithmData(numFrames) EXCEPT !.lfruData = <<LFRUData>>]
                  ELSE AlgorithmData(numFrames)]]
    /\ pc' = "running"
    /\ UNCHANGED <<numFrames, lastPageRef, pageRefs, machine,
                   returned, algoCode, alone, rerun, requested,
                   sinceCleared>>

\* runSimulation() called once more, without setConfiguration, after a run
\* and a selectAlgorithm that returned: the policies go on from the tables
\* and counters they have, in the list as the sort has left it
RunSimulationAgain ==
    /\ pc = "reselected"
    /\ ~stale
    /\ stale' = TRUE
    /\ previous' = RunResults
    /\ counter' = 0
    /\ maxPageCalls' = Min(maxPageCalls, Len(pageRefs))
    /\ pc' = "running"
    /\ UNCHANGED <<numFrames, lastPageRef, pageRefs, algorithms, machine,
                   returned, algoCode, alone, rerun, requested,
                   sinceCleared>>

\* the simulator after the loop of processPageReference ended with r
Processed(r) ==
    /\ algorithms' = r.algorithms
    /\ machine' = r.m
    /\ returned' = r.returned
    /\ sinceCleared' =
          IF r.returned["CLOCK"] = "fault" /\ r.m.clockExamined > 0
          THEN [i \in 1..numFrames |->
                   IF (i - 1) \in r.m.clockCleared
                   THEN 0 ELSE sinceCleared[i] + 1]
          ELSE sinceCleared

ProcessPageReference ==
    /\ pc = "running"
    /\ counter < maxPageCalls /\ counter < Len(pageRefs)
    /\ \E rnd \in 0..(numFrames - 1) :
          /\ Processed(processPageReference(pageRefs[counter + 1].pageNum, rnd))
          /\ alone' = processPageReferenceAlone(pageRefs[counter + 1].pageNum, rnd)
    /\ lastPageRef' = pageRefs[counter + 1].pageNum
    /\ counter' = counter + 1
    /\ UNCHANGED <<numFrames, maxPageCalls, pageRefs, pc, algoCode, rerun,
                   previous, requested, stale>>

RunSimulationEnd ==
    /\ pc = "running"
    /\ ~(counter < maxPageCalls /\ counter < Len(pageRefs))
    /\ algorithms' = SortByHitRatio(algorithms)
    /\ pc' = "done"
    /\ UNCHANGED <<numFrames, maxPageCalls, counter, lastPageRef, pageRefs,
                   machine, returned, algoCode, alone, rerun, previous,
                   requested, sinceCleared, stale>>

Next ==
    \/ \E frames \in FrameCounts : SetConfiguration(frames, DefaultMaxPageCalls)
    \/ \E pages \in Traces : LoadPageReferences(pages)
    \/ \E code \in Codes : SelectAlgorithm(code)
    \/ RunSimulationBegin
    \/ ProcessPageReference
    \/ RunSimulationEnd

Spec == Init /\ [][Next]_vars

\* one process that configures, runs all policies on a canonical short
\* trace, and then either configures and runs again on the trace it has
\* loaded or calls selectAlgorithm on the sorted list
NextRerun ==
    \/ \E frames \in 1..MaxFrames : SetConfiguration(frames, DefaultMaxPageCalls)
    \/ \E pages \in CanonicalTraces : LoadPageReferences(pages)
    \/ \E code \in Codes : SelectAlgorithm(code)
    \/ RunSimulationBegin
    \/ ProcessPageReference
    \/ RunSimulationEnd
    \/ \E frames \in 1..MaxFrames : Reconfigure(frames, DefaultMaxPageCalls)
    \/ \E code \in Codes : Reselect(code)

SpecRerun == Init /\ [][NextRerun]_vars

\* codes given to selectAlgorithm after a run: all policies, or an unknown
\* code
CodesAfterRun == {"a"} \cup InvalidCodes

\* one process that passes setConfiguration any frame count and any limit,
\* selects all policies, CLOCK or an unknown code, runs, running also after
\* the selection has thrown, and after the run can select again and run
\* once more
NextCalls ==
    \/ \E frames \in FrameArguments, maxCalls \in CallLimits :
          SetConfiguration(frames, maxCalls)
    \/ \E pages \in CanonicalTraces : LoadPageReferences(pages)
    \/ \E code \in Codes \cup InvalidCodes : SelectAlgorithm(code)
    \/ RunSimulationBegin
    \/ ProcessPageReference
    \/ RunSimulationEnd
    \/ \E code \in CodesAfterRun : Reselect(code)
    \/ RunSimulationAgain

SpecCalls == Init /\ [][NextCalls]_vars

\* one process that runs AGING alone on a trace of RegisterRefs references
NextAging ==
    \/ \E frames \in 1..MaxFrames : SetConfiguration(frames, DefaultMaxPageCalls)
    \/ \E pages \in RegisterTraces : LoadPageReferences(pages)
    \/ SelectAlgorithm("A")
    \/ RunSimulationBegin
    \/ ProcessPageReference
    \/ RunSimulationEnd

SpecAging == Init /\ [][NextAging]_vars

\* one process that runs LFRU alone on a scan and its tail, with fewer
\* frames configured than the partitions hold or with as many
NextLfru ==
    \/ \E frames \in {MaxFrames, LfruCapacity} :
          SetConfiguration(frames, DefaultMaxPageCalls)
    \/ \E pages \in LfruTraces : LoadPageReferences(pages)
    \/ SelectAlgorithm("f")
    \/ RunSimulationBegin
    \/ ProcessPageReference
    \/ RunSimulationEnd

SpecLfru == Init /\ [][NextLfru]_vars

(***************************************************************************)
(* Vocabulary of the properties                                            *)
(***************************************************************************)
TableLabels == LabelSet \ {"LFRU"}

PagesOf(frames) == {frames[i].page : i \in 1..Len(frames)} \ {-1}

Privileged == Policy("LFRU").data.lfruData[1].privileged

Unprivileged == Policy("LFRU").data.lfruData[1].unprivileged

\* the pages resident in a policy's cache
Resident(label) ==
    IF label = "LFRU"
    THEN PagesOf(Privileged) \cup PagesOf(Unprivileged)
    ELSE PagesOf(Policy(label).data.pageTable)

\* the transition is one pass of processPageReference
IsStep == counter' = counter + 1

\* the policy was called in the last pass of processPageReference
Called(label) == returned[label] # "none"

NoDuplicates(frames) ==
    \A i, j \in 1..Len(frames) :
        (i # j /\ frames[i].page # -1) => frames[i].page # frames[j].page

Last(seq) == seq[Len(seq)]

RanBelady(label) ==
    /\ pc = "done"
    /\ pageRefs = PageRefsOf(BeladyTrace)
    /\ numFrames = BeladyFrames
    /\ Policy(label).selected

(***************************************************************************)
(* C1: a policy returns Hit exactly when the requested page was resident   *)
(* in its cache (page table, or either LFRU partition) just before the     *)
(* step, Fault otherwise, and the page is resident just after the step.    *)
(***************************************************************************)
C1_Step ==
    IsStep =>
        \A l \in LabelSet :
            Called(l)' =>
                /\ (returned'[l] = "hit") <=> (lastPageRef' \in Resident(l))
                /\ (returned'[l] = "fault") <=> (lastPageRef' \notin Resident(l))
                /\ lastPageRef' \in Resident(l)'

C1_HitIffResident == [][C1_Step]_vars

\* all twelve policies were called, some hit and some faulted
C1_Witness ==
    /\ \A l \in LabelSet : Called(l)
    /\ returned["LRU"] = "hit"
    /\ returned["FIFO"] = "fault"
    /\ returned["LFRU"] = "hit"

(***************************************************************************)
(* C2: after the reference with index t every selected policy has          *)
(* hits + misses = t + 1; each step adds exactly 1 to exactly one of the   *)
(* two counters, the one the policy's return value names.                  *)
(***************************************************************************)
C2_Sum ==
    pc \in {"running", "done"} =>
        \A i \in 1..Len(algorithms) :
            algorithms[i].selected =>
                algorithms[i].data.hits + algorithms[i].data.misses = counter

C2_Step ==
    IsStep =>
        \A l \in LabelSet :
            Policy(l).selected =>
                /\ Called(l)'
                /\ Policy(l).data.hits' =
                      Policy(l).data.hits + (IF returned'[l] = "hit" THEN 1 ELSE 0)
                /\ Policy(l).data.misses' =
                      Policy(l).data.misses + (IF returned'[l] = "fault" THEN 1 ELSE 0)

C2_EngineCounts == [][C2_Step]_vars /\ []C2_Sum

\* a run of all policies got past its third reference with hits and misses
C2_Witness ==
    /\ counter >= 3
    /\ \A l \in LabelSet : Policy(l).selected
    /\ Policy("LRU").data.hits >= 1
    /\ Policy("LRU").data.misses >= 2

(***************************************************************************)
(* C3: no page is held by two frames: the non-EMPTY pages of every page    *)
(* table are pairwise distinct, and so are those of the two LFRU           *)
(* partitions taken together.                                              *)
(***************************************************************************)
C3_NoDuplicatePages ==
    /\ \A l \in LabelSet : NoDuplicates(Policy(l).data.pageTable)
    /\ NoDuplicates(Privileged \o Unprivileged)

\* LFRU has filled both partitions and then promoted a page
C3_Witness ==
    /\ ~hasSpace(Privileged)
    /\ returned["LFRU"] = "hit"
    /\ lastPageRef \in PagesOf(Privileged)
    /\ \E i \in 1..LfruCapacity : pageRefs[i].pageNum = lastPageRef
    /\ counter > LfruCapacity + 1
    /\ PagesOf(Unprivileged) # {}

(***************************************************************************)
(* C4: after every step every policy holds at most numFrames pages, for    *)
(* every frame count setConfiguration accepts; LFRU holds at most          *)
(* PRIVILEGED_PARTITION_SIZE pages in privileged and at most               *)
(* UNPRIVILEGED_PARTITION_SIZE in unprivileged.                            *)
(***************************************************************************)
C4_ResidentAtMostF ==
    /\ \A l \in LabelSet : Cardinality(Resident(l)) <= numFrames
    /\ Cardinality(PagesOf(Privileged)) <= PRIVILEGED_PARTITION_SIZE
    /\ Cardinality(PagesOf(Unprivileged)) <= UNPRIVILEGED_PARTITION_SIZE

(***************************************************************************)
(* C5: for every policy, LFRU included, the victim log grows by exactly    *)
(* one snapshot in every step in which a resident page leaves the cache    *)
(* (a miss on a full cache), and is unchanged in every other step, so its  *)
(* length is the number of evictions so far.                               *)
(***************************************************************************)
\* the cache of a policy has no room left
Full(label) ==
    IF label = "LFRU"
    THEN ~hasSpace(Privileged) /\ ~hasSpace(Unprivileged)
    ELSE ~hasSpace(Policy(label).data.pageTable)

C5_Step ==
    IsStep =>
        \A l \in LabelSet :
            Called(l)' =>
                LET log == Policy(l).data.victimList
                    evicted == Resident(l) \ Resident(l)'
                IN  /\ (evicted # {}) <=> (returned'[l] = "fault" /\ Full(l))
                    /\ (evicted # {}) =>
                           /\ Len(log') = Len(log) + 1
                           /\ SubSeq(log', 1, Len(log)) = log
                           /\ log'[Len(log')].page \in evicted
                    /\ (evicted = {}) => log' = log

C5_VictimLogCountsEvictions == [][C5_Step]_vars

(***************************************************************************)
(* C6: on the same trace and with the same frame count, OPTIMAL ends with  *)
(* no more misses than any other policy.                                   *)
(***************************************************************************)
C6_OptimalIsBest ==
    (pc = "done" /\ Policy("OPTIMAL").selected) =>
        \A l \in LabelSet :
            Policy(l).selected =>
                Policy("OPTIMAL").data.misses <= Policy(l).data.misses

(***************************************************************************)
(* C7: FIFO evicts in insertion order: the victim of every FIFO eviction   *)
(* has an insertion tick (extra) strictly below that of every other        *)
(* resident frame, so the victim log is in insertion order; the tests'     *)
(* trace with 3 frames gives 5 hits and 15 misses.                         *)
(***************************************************************************)
\* the policy evicted in this step: its victim log grew
Evicts(label) ==
    /\ IsStep
    /\ Len(Policy(label).data.victimList') = Len(Policy(label).data.victimList) + 1

\* the snapshot logged in this step is a frame of the table before the step
\* and every other frame of that table has a larger extra
VictimIsOldest(label) ==
    LET t == Policy(label).data.pageTable
        v == Last(Policy(label).data.victimList')
    IN  /\ v = t[v.index + 1]
        /\ v.page # -1
        /\ \A i \in 1..Len(t) : i # v.index + 1 => v.extra < t[i].extra

C7_Step == Evicts("FIFO") => VictimIsOldest("FIFO")

C7_LogInInsertionOrder ==
    LET log == Policy("FIFO").data.victimList
    IN  \A i, j \in 1..Len(log) : i < j => log[i].extra < log[j].extra

C7_Belady ==
    RanBelady("FIFO") =>
        Policy("FIFO").data.hits = 5 /\ Policy("FIFO").data.misses = 15

C7_FifoOrder == [][C7_Step]_vars /\ []C7_LogInInsertionOrder /\ []C7_Belady

\* FIFO alone has run the tests' trace to its end, evicting on the way
C7_Witness == RanBelady("FIFO") /\ Len(Policy("FIFO").data.victimList) = 12

(***************************************************************************)
(* C8: the victim of every LRU eviction is the resident frame whose last   *)
(* touch (insertion or hit) came from the earliest reference; the tests'   *)
(* trace with 3 frames gives 8 hits and 12 misses.                         *)
(***************************************************************************)
\* lru() stores the reference counter of a frame's last touch in extra; in
\* one run it is the index of the reference that touched the frame last
C8_ExtraIsLastTouch ==
    \A i \in 1..Len(Policy("LRU").data.pageTable) :
        LET f == Policy("LRU").data.pageTable[i]
        IN  f.page # -1 =>
                /\ f.extra < counter
                /\ pageRefs[f.extra + 1].pageNum = f.page
                /\ \A k \in (f.extra + 2)..counter : pageRefs[k].pageNum # f.page

C8_Step == Evicts("LRU") => VictimIsOldest("LRU")

C8_Belady ==
    RanBelady("LRU") =>
        Policy("LRU").data.hits = 8 /\ Policy("LRU").data.misses = 12

C8_LruRecency == [][C8_Step]_vars /\ []C8_ExtraIsLastTouch /\ []C8_Belady

\* LRU alone has run the tests' trace to its end, evicting on the way
C8_Witness == RanBelady("LRU") /\ Len(Policy("LRU").data.victimList) = 9

(***************************************************************************)
(* C9: NRU and LRU, run side by side from empty tables, return the same    *)
(* Hit/Fault on every reference, hold the same page in every frame after   *)
(* every step and evict the same pages in the same order.                  *)
(***************************************************************************)
C9_NruMatchesLru ==
    (Policy("NRU").selected /\ Policy("LRU").selected) =>
        /\ returned["NRU"] = returned["LRU"]
        /\ PageSeq(Policy("NRU").data.pageTable) = PageSeq(Policy("LRU").data.pageTable)
        /\ PageSeq(Policy("NRU").data.victimList) = PageSeq(Policy("LRU").data.victimList)
        /\ Policy("NRU").data.hits = Policy("LRU").data.hits
        /\ Policy("NRU").data.misses = Policy("LRU").data.misses

\* both have evicted twice and hit at least once
C9_Witness ==
    /\ Policy("NRU").selected /\ Policy("LRU").selected
    /\ Len(Policy("NRU").data.victimList) >= 2
    /\ Policy("NRU").data.hits >= 1
    /\ Policy("LRU").data.pageTable # Policy("FIFO").data.pageTable
    /\ PageSeq(Policy("LRU").data.pageTable) # PageSeq(Policy("FIFO").data.pageTable)

(***************************************************************************)
(* C10: a FIFO hit changes nothing: when the requested page is resident    *)
(* fifo returns Hit and every frame (page, extra, time) and the victim log *)
(* are as they were before the step.                                       *)
(***************************************************************************)
C10_Step ==
    (IsStep /\ Policy("FIFO").selected) =>
        /\ lastPageRef' \in Resident("FIFO") => returned'["FIFO"] = "hit"
        /\ returned'["FIFO"] = "hit" =>
              /\ Policy("FIFO").data.pageTable' = Policy("FIFO").data.pageTable
              /\ Policy("FIFO").data.victimList' = Policy("FIFO").data.victimList

C10_FifoHitChangesNothing == [][C10_Step]_vars

\* FIFO hit on a page of a table that is full and has evicted before
C10_Witness ==
    /\ returned["FIFO"] = "hit"
    /\ Full("FIFO")
    /\ Policy("FIFO").data.victimList # <<>>

(***************************************************************************)
(* C11: on every LFU eviction the victim is a frame of minimum frequency   *)
(* and, among the frames of that frequency, the one with the smallest      *)
(* lastUsed; the installed page gets frequency 1 and a fresh tick; a hit   *)
(* adds 1 to the frequency and refreshes lastUsed.                         *)
(***************************************************************************)
\* the tick is later than every tick stored in the table
FreshTick(tick, frames) == \A i \in 1..Len(frames) : tick > frames[i].lastUsed

\* frame a goes before frame b: lower frequency, or the same and older
LfuBefore(a, b) ==
    \/ a.frequency < b.frequency
    \/ a.frequency = b.frequency /\ a.lastUsed < b.lastUsed

\* the frame of the table that holds the page
FrameOf(frames, page) == CHOOSE i \in 1..Len(frames) : frames[i].page = page

C11_Evicted ==
    LET t == Policy("LFU").data.pageTable
        v == Last(Policy("LFU").data.victimList')
    IN  /\ v = t[v.index + 1]
        /\ \A i \in 1..Len(t) : i # v.index + 1 => LfuBefore(v, t[i])
        /\ FrameOf(Policy("LFU").data.pageTable', lastPageRef') = v.index + 1

C11_Installed ==
    LET t == Policy("LFU").data.pageTable
        f == Policy("LFU").data.pageTable'[
                 FrameOf(Policy("LFU").data.pageTable', lastPageRef')]
    IN  f.frequency = 1 /\ FreshTick(f.lastUsed, t)

C11_Hit ==
    LET t == Policy("LFU").data.pageTable
        i == FrameOf(t, lastPageRef')
    IN  /\ Policy("LFU").data.pageTable'[i].frequency = t[i].frequency + 1
        /\ FreshTick(Policy("LFU").data.pageTable'[i].lastUsed, t)
        /\ Policy("LFU").data.pageTable'[i].page = t[i].page

C11_Step ==
    (IsStep /\ Called("LFU")') =>
        /\ Evicts("LFU") => C11_Evicted
        /\ returned'["LFU"] = "fault" => C11_Installed
        /\ returned'["LFU"] = "hit" => C11_Hit

C11_LfuVictim == [][C11_Step]_vars

\* LFU has just evicted a frame that shared its frequency with a frame that
\* stays, and has hit before
C11_Witness ==
    LET t == Policy("LFU").data.pageTable
        log == Policy("LFU").data.victimList
    IN  /\ returned["LFU"] = "fault"
        /\ log # <<>>
        /\ Policy("LFU").data.hits >= 1
        /\ \E i \in 1..Len(t) :
              /\ i # Last(log).index + 1
              /\ t[i].frequency = Last(log).frequency
              /\ t[i].lastUsed > Last(log).lastUsed

(***************************************************************************)
(* C12: for every policy, a reference that repeats the reference before it *)
(* returns Hit and leaves the set of resident pages as it was; a trace of  *)
(* one page repeated N times gives 1 miss and N-1 hits.                    *)
(***************************************************************************)
\* this pass of processPageReference repeats the reference of the pass before
Repeats == IsStep /\ counter >= 1 /\ lastPageRef' = lastPageRef

C12_Step ==
    Repeats =>
        \A l \in LabelSet :
            Called(l)' =>
                /\ returned'[l] = "hit"
                /\ Resident(l)' = Resident(l)

OnePageTrace == \A i \in 1..Len(pageRefs) : pageRefs[i].pageNum = pageRefs[1].pageNum

C12_OnePage ==
    (pc = "done" /\ OnePageTrace) =>
        \A l \in LabelSet :
            Policy(l).selected =>
                /\ Policy(l).data.misses = 1
                /\ Policy(l).data.hits = Len(pageRefs) - 1

C12_RepeatHits == [][C12_Step]_vars /\ []C12_OnePage

\* all twelve policies have run a trace of one page to its end
C12_Witness ==
    /\ pc = "done"
    /\ OnePageTrace
    /\ Len(pageRefs) = MaxRefs
    /\ \A l \in LabelSet : Policy(l).selected /\ Policy(l).data.hits = MaxRefs - 1

(***************************************************************************)
(* C13: for NFU, MFU, LFU and AGING every reference that repeats the       *)
(* reference before it changes the metadata of the hit frame (NFU and MFU  *)
(* extra, LFU frequency and lastUsed, AGING extra) and leaves residency    *)
(* unchanged, for any number of consecutive repetitions.                   *)
(***************************************************************************)
HitFrameBefore(label) ==
    Policy(label).data.pageTable[
        FrameOf(Policy(label).data.pageTable, lastPageRef')]

HitFrameAfter(label) ==
    Policy(label).data.pageTable'[
        FrameOf(Policy(label).data.pageTable, lastPageRef')]

C13_Step ==
    Repeats =>
        /\ \A l \in {"NFU", "MFU", "AGING"} :
              Called(l)' =>
                  /\ HitFrameAfter(l).extra # HitFrameBefore(l).extra
                  /\ Resident(l)' = Resident(l)
        /\ Called("LFU")' =>
              /\ HitFrameAfter("LFU").frequency # HitFrameBefore("LFU").frequency
              /\ HitFrameAfter("LFU").lastUsed # HitFrameBefore("LFU").lastUsed
              /\ Resident("LFU")' = Resident("LFU")

C13_RepeatChangesMetadata == [][C13_Step]_vars

(***************************************************************************)
(* C14: when a reference finds its page in the unprivileged partition,     *)
(* LFRU returns Hit and after the step the page is in the privileged       *)
(* partition and no longer in the unprivileged one.                        *)
(***************************************************************************)
C14_Step ==
    (IsStep /\ Called("LFRU")' /\ lastPageRef' \in PagesOf(Unprivileged)) =>
        /\ returned'["LFRU"] = "hit"
        /\ lastPageRef' \in PagesOf(Privileged)'
        /\ lastPageRef' \notin PagesOf(Unprivileged)'

C14_Promotion == [][C14_Step]_vars

\* the first reference after the scan went to a page the scan had pushed
\* down to unprivileged, and the page is now in privileged
C14_Witness ==
    /\ Policy("LFRU").selected
    /\ counter = LfruCapacity + 1
    /\ lastPageRef \in 0..(UNPRIVILEGED_PARTITION_SIZE - 1)
    /\ lastPageRef \in PagesOf(Privileged)
    /\ Policy("LFRU").data.hits = 1

(***************************************************************************)
(* C15: a reference to a page of the privileged partition, in particular   *)
(* to the page the reference before it promoted, returns Hit, changes only *)
(* lastUsed of the page's privileged frame and leaves every frame of the   *)
(* unprivileged partition unchanged.                                       *)
(***************************************************************************)
C15_Step ==
    (IsStep /\ Called("LFRU")' /\ lastPageRef' \in PagesOf(Privileged)) =>
        /\ returned'["LFRU"] = "hit"
        /\ Unprivileged' = Unprivileged
        /\ \A i \in 1..Len(Privileged) :
              IF Privileged[i].page = lastPageRef'
              THEN /\ Privileged'[i] =
                         [Privileged[i] EXCEPT !.lastUsed = Privileged'[i].lastUsed]
                   /\ Privileged'[i].lastUsed # Privileged[i].lastUsed
              ELSE Privileged'[i] = Privileged[i]

C15_PromotionIdempotent == [][C15_Step]_vars

\* the two references after the scan went to one page that the scan had
\* pushed down to unprivileged: promoted by the first, hit by the second
C15_Witness ==
    /\ Policy("LFRU").selected
    /\ counter = LfruCapacity + 2
    /\ pageRefs[LfruCapacity + 1].pageNum = lastPageRef
    /\ lastPageRef \in 0..(UNPRIVILEGED_PARTITION_SIZE - 1)
    /\ returned["LFRU"] = "hit"
    /\ Policy("LFRU").data.hits = 2

(***************************************************************************)
(* C16: the victim search of CLOCK ends after at most numFrames passes     *)
(* through its loop (one revolution), having cleared the reference bit of  *)
(* every frame it passed, and the hand is within 0..numFrames-1 whenever   *)
(* it indexes the table, whatever hand an earlier run has left behind.     *)
(***************************************************************************)
\* the frames the search passed before it came to the victim, going back
\* from the victim against the direction of the hand
PassedFrames(victim) ==
    {((victim.index + numFrames - j) % numFrames) + 1 :
        j \in 1..(machine'.clockExamined - 1)}

C16_Step ==
    (IsStep /\ Called("CLOCK")') =>
        /\ machine'.clockHand \in 0..(numFrames - 1)
        /\ machine'.clockExamined <= numFrames
        /\ Evicts("CLOCK") =>
              LET v == Last(Policy("CLOCK").data.victimList')
              IN  /\ machine'.clockExamined >= 1
                  /\ v.index \in 0..(numFrames - 1)
                  /\ machine'.clockHand = (v.index + 1) % numFrames
                  /\ Policy("CLOCK").data.pageTable'[v.index + 1].page = lastPageRef'
                  /\ \A i \in PassedFrames(v) :
                        Policy("CLOCK").data.pageTable'[i].extra = 0
        /\ ~Evicts("CLOCK") => machine'.clockExamined = 0

C16_ClockSearchBounded == [][C16_Step]_vars

\* in a second run with fewer frames than the first, the search has just
\* gone through a full revolution
C16_Witness ==
    /\ rerun
    /\ previous.numFrames > numFrames
    /\ returned["CLOCK"] = "fault"
    /\ machine.clockExamined = numFrames

(***************************************************************************)
(* C17: whenever a simulator has been configured (all tables EMPTY), the   *)
(* next CLOCK run starts with its hand at 0, whatever CLOCK run happened   *)
(* earlier in the process.                                                 *)
(***************************************************************************)
\* the hand clock() starts from once it has applied its bounds check
StartHand == IF machine.clockHand >= numFrames THEN 0 ELSE machine.clockHand

C17_HandStartsAtZero ==
    pc \in {"configured", "loaded", "selected"} => StartHand = 0

(***************************************************************************)
(* C18: two runs of one policy on the same trace with the same frame       *)
(* count, each on a freshly configured simulator, the second after the     *)
(* first in the same process, end with the same hits, the same misses and  *)
(* the same victim log, for every policy but RANDOM.                       *)
(***************************************************************************)
\* a second run has ended that repeats the first: same frames, same code
\* (the trace is the one that was loaded)
RepeatedRun ==
    /\ pc = "done"
    /\ rerun
    /\ previous.numFrames = numFrames
    /\ previous.algoCode = algoCode
    /\ previous.pageRefs = pageRefs

SameAsPrevious(label) ==
    /\ Policy(label).data.hits = previous.results[label].hits
    /\ Policy(label).data.misses = previous.results[label].misses
    /\ PageSeq(Policy(label).data.victimList) = previous.results[label].victims

C18_Deterministic ==
    RepeatedRun =>
        \A l \in LabelSet \ {"RANDOM"} : Policy(l).selected => SameAsPrevious(l)

(***************************************************************************)
(* C19: a policy run together with all the others returns the same         *)
(* Hit/Fault on every reference and has the same counters, the same pages  *)
(* in its frames and the same victim log as when it runs alone on the same *)
(* trace and frame count from the same initial state.                      *)
(***************************************************************************)
SamePages(data, other) ==
    /\ PageSeq(data.pageTable) = PageSeq(other.pageTable)
    /\ PageSeq(data.victimList) = PageSeq(other.victimList)
    /\ PageSeq(data.lfruData[1].privileged) = PageSeq(other.lfruData[1].privileged)
    /\ PageSeq(data.lfruData[1].unprivileged) =
           PageSeq(other.lfruData[1].unprivileged)

SameAsAlone(label) ==
    /\ returned[label] = alone[label].returned
    /\ Policy(label).data.hits = alone[label].data.hits
    /\ Policy(label).data.misses = alone[label].data.misses
    /\ IF label = "LFRU"
       THEN SamePages(Policy(label).data, alone[label].data)
       ELSE /\ PageSeq(Policy(label).data.pageTable) =
                   PageSeq(alone[label].data.pageTable)
            /\ PageSeq(Policy(label).data.victimList) =
                   PageSeq(alone[label].data.victimList)

C19_Isolated ==
    (pc \in {"running", "done"} /\ counter >= 1) =>
        \A l \in LabelSet : Policy(l).selected => SameAsAlone(l)

\* all policies run together, LFU has evicted, and the ticks LFU stored differ
\* from the ticks it stores when it runs alone
C19_Witness ==
    /\ \A l \in LabelSet : Policy(l).selected
    /\ counter >= 3
    /\ Policy("LFU").data.victimList # <<>>
    /\ Policy("LFU").data.pageTable # alone["LFU"].data.pageTable
    /\ Privileged # alone["LFRU"].data.lfruData[1].privileged

(***************************************************************************)
(* C20: in every reachable state, also after runSimulation has sorted the  *)
(* list, selectAlgorithm(c) leaves selected exactly the policy that the    *)
(* code names (O OPTIMAL, R RANDOM, F FIFO, L LRU, C CLOCK, N NFU,         *)
(* A AGING, M MRU, n NRU, m MFU, l LFU, f LFRU), and all twelve for a.     *)
(***************************************************************************)
LabelsOfCode(code) ==
    CASE code = "O" -> {"OPTIMAL"} [] code = "R" -> {"RANDOM"}
      [] code = "F" -> {"FIFO"}    [] code = "L" -> {"LRU"}
      [] code = "C" -> {"CLOCK"}   [] code = "N" -> {"NFU"}
      [] code = "A" -> {"AGING"}   [] code = "M" -> {"MRU"}
      [] code = "n" -> {"NRU"}     [] code = "m" -> {"MFU"}
      [] code = "l" -> {"LFU"}     [] code = "f" -> {"LFRU"}
      [] code = "a" -> LabelSet

\* the step is a call of selectAlgorithm that returned
Selects == pc' # pc /\ pc' \in {"selected", "reselected"}

C20_Step ==
    Selects => {l \in LabelSet : Policy(l).selected}' = LabelsOfCode(algoCode')

C20_CodeNamesPolicy == [][C20_Step]_vars

(***************************************************************************)
(* C21: selectAlgorithm called with a code outside                         *)
(* {O,R,F,L,C,N,A,M,n,m,l,f,a} throws invalid_argument and selects         *)
(* nothing; a runSimulation called after the failed selection executes no  *)
(* policy step: every policy's hits, misses and table stay as they were.   *)
(***************************************************************************)
\* a step in which selectAlgorithm is called
Selecting ==
    /\ pc \in {"loaded", "done"}
    /\ pc' \in {"selected", "reselected", "invalid_argument"}

\* a step of the runSimulation that follows a selection that threw
RunsAfterThrow ==
    /\ algoCode \notin Codes
    /\ pc \in {"invalid_argument", "running"}

C21_Step ==
    /\ Selecting =>
          /\ pc' = "invalid_argument" <=> algoCode' \notin Codes
          /\ algoCode' \notin Codes =>
                \A l \in LabelSet : ~Policy(l).selected'
    /\ RunsAfterThrow =>
          \A l \in LabelSet :
              /\ Policy(l).data' = Policy(l).data
              /\ ~Policy(l).selected'
              /\ IsStep => returned'[l] = "none"

C21_UnknownCodeSelectsNothing == [][C21_Step]_vars

\* a run has ended that followed the unknown code given after an earlier run,
\* whose hits are still there
C21_Witness ==
    /\ pc = "done"
    /\ algoCode \in InvalidCodes
    /\ counter = Len(pageRefs)
    /\ \E l \in LabelSet : Policy(l).data.hits > 0

(***************************************************************************)
(* C22: setConfiguration(frames, ...) sets the frame count to              *)
(* max(1, frames): a value below 1 is clamped to 1, a value of 1 or more   *)
(* is used as given; afterwards every policy's page table has exactly that *)
(* many frames.                                                            *)
(***************************************************************************)
\* a step in which setConfiguration is called
Configuring ==
    \/ pc = "constructed" /\ pc' = "configured"
    \/ pc = "done" /\ pc' = "loaded"

C22_Step ==
    /\ Configuring =>
          numFrames' = IF requested'.frames < 1 THEN 1 ELSE requested'.frames
    /\ pc' # "constructed" =>
          \A l \in LabelSet : Len(Policy(l).data.pageTable') = numFrames'

C22_FramesClampedToOne == [][C22_Step]_vars

\* setConfiguration was given a frame count below 1 and a run was made
C22_Witness ==
    /\ requested.frames < 1
    /\ pc = "done"
    /\ numFrames = 1
    /\ \A l \in LabelSet : Len(Policy(l).data.pageTable) = 1

(***************************************************************************)
(* C23: whenever LFRU takes part in a run (code 'f' or 'a') and the        *)
(* requested frame count is below P1 + P2 = 10, the engine raises the      *)
(* frame count used for the run to P1 + P2, so that F >= P1 + P2 holds in  *)
(* every run in which LFRU is selected.                                    *)
(***************************************************************************)
C23_LfruRunsWithTenFrames ==
    (pc \in {"running", "done"} /\ Policy("LFRU").selected) =>
        numFrames >= PRIVILEGED_PARTITION_SIZE + UNPRIVILEGED_PARTITION_SIZE

(***************************************************************************)
(* C24: max_calls is a hard upper bound on the references processed.  When *)
(* runSimulation returns after a run started from a freshly configured     *)
(* simulator, every selected policy has hits + misses = min(N, max_calls), *)
(* the references processed are exactly trace[0 .. min(N, max_calls) - 1]  *)
(* in order, and every unselected policy has hits = misses = 0 and an      *)
(* all-EMPTY table.                                                        *)
(***************************************************************************)
\* the run is the first one after setConfiguration, with a valid code
FreshRun == algoCode \in Codes /\ ~stale

\* min(N, max_calls), max_calls as it was given to setConfiguration
CallLimit ==
    IF requested.maxCalls < Len(pageRefs)
    THEN requested.maxCalls ELSE Len(pageRefs)

AllEmpty(frames) == \A i \in 1..Len(frames) : frames[i].page = EMPTY

Untouched(data) ==
    /\ data.hits = 0 /\ data.misses = 0
    /\ AllEmpty(data.pageTable)
    /\ \A k \in 1..Len(data.lfruData) :
          /\ AllEmpty(data.lfruData[k].privileged)
          /\ AllEmpty(data.lfruData[k].unprivileged)

C24_AtReturn ==
    /\ counter = CallLimit
    /\ \A l \in LabelSet :
          IF Policy(l).selected
          THEN Policy(l).data.hits + Policy(l).data.misses = CallLimit
          ELSE Untouched(Policy(l).data)

C24_Step ==
    /\ (FreshRun /\ IsStep) =>
          /\ counter < CallLimit
          /\ lastPageRef' = pageRefs[counter + 1].pageNum
          /\ \A l \in LabelSet :
                Policy(l).selected =>
                    /\ returned'[l] # "none"
                    /\ Policy(l).data.hits' + Policy(l).data.misses'
                           = counter + 1
    /\ (FreshRun /\ pc = "running" /\ pc' = "done") => C24_AtReturn'

C24_MaxCallsBoundsTheRun == [][C24_Step]_vars

\* CLOCK alone has run on a trace longer than the limit
C24_Witness ==
    /\ pc = "done" /\ FreshRun
    /\ requested.maxCalls = MaxCalls
    /\ Len(pageRefs) > MaxCalls
    /\ counter = MaxCalls
    /\ Policy("CLOCK").selected /\ ~Policy("LRU").selected
    /\ Policy("CLOCK").data.hits + Policy("CLOCK").data.misses = MaxCalls

(***************************************************************************)
(* C25: after runSimulation the policy list is ordered by non-increasing   *)
(* hit ratio, policies with equal ratios in declaration order; through the *)
(* sort each policy keeps its own label, selected flag, counters and       *)
(* table.                                                                  *)
(***************************************************************************)
\* the position of a label in the order initializeAlgorithms() declares
DeclIndex(label) == CHOOSE i \in 1..Len(Labels) : Labels[i] = label

\* hit ratio of the policy at position i against that at position j:
\* -1 smaller, 0 equal, 1 greater
CompareRatio(i, j) ==
    LET ri == getHitRatio(algorithms[i].data)
        rj == getHitRatio(algorithms[j].data)
    IN  IF ri[1] * rj[2] > rj[1] * ri[2] THEN 1
        ELSE IF ri[1] * rj[2] < rj[1] * ri[2] THEN -1 ELSE 0

C25_Sorted ==
    \A i, j \in 1..Len(algorithms) :
        i < j =>
            /\ CompareRatio(i, j) >= 0
            /\ CompareRatio(i, j) = 0 =>
                  DeclIndex(algorithms[i].label) < DeclIndex(algorithms[j].label)

C25_Step ==
    (pc = "running" /\ pc' = "done") =>
        /\ C25_Sorted'
        /\ Len(algorithms') = Len(algorithms)
        /\ \A l \in LabelSet :
              /\ Cardinality({i \in 1..Len(algorithms') :
                                algorithms'[i].label = l}) = 1
              /\ Policy(l)' = Policy(l)

C25_SortedByHitRatio == [][C25_Step]_vars

(***************************************************************************)
(* C26: in every frame container (each policy's page table and each of the *)
(* two LFRU partitions) the index fields of the frames are a permutation   *)
(* of 0 .. size-1; they are assigned at construction and no policy step    *)
(* changes them.                                                           *)
(***************************************************************************)
IndexSeq(frames) == [i \in 1..Len(frames) |-> frames[i].index]

\* the frame containers of a policy
Containers(label) ==
    {Policy(label).data.pageTable}
        \cup {Policy(label).data.lfruData[k].privileged :
                  k \in 1..Len(Policy(label).data.lfruData)}
        \cup {Policy(label).data.lfruData[k].unprivileged :
                  k \in 1..Len(Policy(label).data.lfruData)}

IndexesArePermutation(frames) ==
    {frames[i].index : i \in 1..Len(frames)} = 0..(Len(frames) - 1)

C26_Step ==
    /\ \A l \in LabelSet :
          \A frames \in Containers(l)' : IndexesArePermutation(frames)
    /\ IsStep =>
          \A l \in LabelSet :
              {IndexSeq(frames) : frames \in Containers(l)'}
                  = {IndexSeq(frames) : frames \in Containers(l)}

C26_FrameIndexes == [][C26_Step]_vars

(***************************************************************************)
(* C27: when the trace has no more distinct pages than there are frames,   *)
(* every policy that uses the F-frame page table incurs only compulsory    *)
(* misses: misses equals the number of distinct pages, hits equals         *)
(* N - misses, nothing is evicted and the victim log stays empty.  The     *)
(* trace 0,1,0,1 with F = 10 under LRU gives 2 hits and 2 misses.          *)
(***************************************************************************)
\* the pages of the trace, and those among the references processed so far
DistinctPages == {pageRefs[i].pageNum : i \in 1..Len(pageRefs)}

PagesSoFar == {pageRefs[i].pageNum : i \in 1..counter}

C27_OnlyCompulsoryMisses ==
    (pc \in {"running", "done"} /\ FreshRun
        /\ Cardinality(DistinctPages) <= numFrames) =>
        /\ \A l \in TableLabels :
              Policy(l).selected =>
                  /\ Policy(l).data.misses = Cardinality(PagesSoFar)
                  /\ Policy(l).data.hits = counter - Policy(l).data.misses
                  /\ Policy(l).data.victimList = <<>>
                  /\ Resident(l) = PagesSoFar
        /\ pc = "done" =>
              /\ counter = Len(pageRefs)
              /\ \A l \in TableLabels :
                    Policy(l).selected =>
                        Policy(l).data.misses = Cardinality(DistinctPages)
        /\ (pc = "done" /\ Policy("LRU").selected
                /\ [i \in 1..Len(pageRefs) |-> pageRefs[i].pageNum]
                       = ExcessFramesTrace) =>
              /\ Policy("LRU").data.hits = 2
              /\ Policy("LRU").data.misses = 2

\* all policies have run on a short trace that has as many pages as the
\* table has frames, more than one, and hits
C27_Witness ==
    /\ pc = "done"
    /\ algoCode = "a"
    /\ Cardinality(DistinctPages) = numFrames
    /\ numFrames > 1
    /\ \A l \in TableLabels : Policy(l).data.hits >= 2

(***************************************************************************)
(* C28: on every OPTIMAL eviction at trace index t the victim holds, among *)
(* the resident pages, the page whose next use in trace[t+1 .. N) is       *)
(* furthest away, a page never used again counting as furthest; among      *)
(* frames tied for furthest the one with the smallest index is evicted.    *)
(* The Belady trace with F = 3 gives 11 hits and 9 misses.                 *)
(***************************************************************************)
\* the positions after the reference being processed at which the page is
\* used, as 1-based positions in pageRefs
LaterUses(page) ==
    {k \in (counter + 2)..Len(pageRefs) : pageRefs[k].pageNum = page}

\* page p is used again no sooner than page q: p is never used again, or
\* q is used again at or before every later use of p
NoSooner(p, q) ==
    \/ LaterUses(p) = {}
    \/ \E kq \in LaterUses(q) : \A kp \in LaterUses(p) : kq <= kp

C28_Step ==
    /\ (IsStep /\ Evicts("OPTIMAL")) =>
          LET t == Policy("OPTIMAL").data.pageTable
              v == Last(Policy("OPTIMAL").data.victimList')
          IN  /\ t[v.index + 1].page = v.page
              /\ \A i \in 1..Len(t) :
                    /\ NoSooner(v.page, t[i].page)
                    /\ NoSooner(t[i].page, v.page) => v.index + 1 <= i
    /\ RanBelady("OPTIMAL")' =>
          /\ Policy("OPTIMAL").data.hits' = 11
          /\ Policy("OPTIMAL").data.misses' = 9

C28_OptimalEvictsFurthest == [][C28_Step]_vars

\* OPTIMAL has run on the tests' trace and has chosen among several pages
\* that are never used again
C28_Witness ==
    /\ RanBelady("OPTIMAL")
    /\ Len(Policy("OPTIMAL").data.victimList) = 6

(***************************************************************************)
(* C29: on a CLOCK miss with a full table the policy, starting at the      *)
(* hand, clears the bit of every frame it passes whose bit is 1 and evicts *)
(* the first frame it reaches whose bit is 0; the evicted frame receives   *)
(* the page with bit 1 and the hand ends one position past the victim,     *)
(* modulo F.  A CLOCK hit or an insertion into an EMPTY frame does not     *)
(* move the hand.                                                          *)
(***************************************************************************)
\* the position in the table of the frame k places after hand
FrameAfter(hand, k) == ((hand + k) % numFrames) + 1

\* how many frames with bit 1 lie between hand and the first frame with bit
\* 0, going round from hand; numFrames when every bit is 1
OnesFrom(t, hand) ==
    IF \E k \in 0..(numFrames - 1) : t[FrameAfter(hand, k)].extra = 0
    THEN CHOOSE k \in 0..(numFrames - 1) :
            /\ t[FrameAfter(hand, k)].extra = 0
            /\ \A j \in 0..(k - 1) : t[FrameAfter(hand, j)].extra # 0
    ELSE numFrames

\* the table after the sweep from hand over table t: the victim holds the
\* page with bit 1, the frames passed have lost their bit
Swept(t, hand, page) ==
    [i \in 1..Len(t) |->
        IF i = FrameAfter(hand, OnesFrom(t, hand))
        THEN [t[i] EXCEPT !.page = page, !.extra = 1]
        ELSE IF \E k \in 0..(OnesFrom(t, hand) - 1) : i = FrameAfter(hand, k)
        THEN [t[i] EXCEPT !.extra = 0]
        ELSE t[i]]

C29_Step ==
    (IsStep /\ Called("CLOCK")') =>
        IF Evicts("CLOCK")
        THEN /\ Last(Policy("CLOCK").data.victimList') =
                   [Policy("CLOCK").data.pageTable[
                       FrameAfter(machine.clockHand,
                                  OnesFrom(Policy("CLOCK").data.pageTable,
                                           machine.clockHand))]
                    EXCEPT !.extra = 0]
             /\ Policy("CLOCK").data.pageTable' =
                   Swept(Policy("CLOCK").data.pageTable, machine.clockHand,
                         lastPageRef')
             /\ machine'.clockHand =
                   FrameAfter(machine.clockHand,
                              OnesFrom(Policy("CLOCK").data.pageTable,
                                       machine.clockHand)) % numFrames
        ELSE machine'.clockHand = machine.clockHand

C29_ClockSweep == [][C29_Step]_vars

(***************************************************************************)
(* C30: CLOCK makes progress.  Across any F consecutive CLOCK misses on a  *)
(* full table (hits may occur in between), every one of the F frames has   *)
(* its reference bit cleared, set from 1 to 0 by the hand, at least once.  *)
(***************************************************************************)
\* no frame has gone through numFrames evictions in a row with none of them
\* clearing its bit
C30_ClockClearsEveryFrame ==
    \A i \in 1..Len(sinceCleared) : sinceCleared[i] < numFrames

\* with more than one frame: a frame has just been cleared in the last of
\* numFrames evictions in a row, none of the earlier ones having cleared it,
\* and there was a hit in between
C30_Witness ==
    /\ numFrames > 1
    /\ Policy("CLOCK").selected
    /\ Len(Policy("CLOCK").data.victimList) >= numFrames
    /\ Policy("CLOCK").data.hits >= 1
    /\ \E i \in 1..numFrames : sinceCleared[i] = numFrames - 1

(***************************************************************************)
(* C31: AGING is a shift register while nothing has been shifted out. A    *)
(* reference AGING keeps a register of 8 bits per frame: before each       *)
(* reference it shifts every resident register right by one, on a hit it   *)
(* sets the most significant bit, it installs with 0 and evicts the        *)
(* smallest register, ties to the smallest index. Run side by side on a    *)
(* trace of at most 8 references, aging() returns the same Hit or Fault    *)
(* and evicts the same frame as the reference on every reference.          *)
(***************************************************************************)
MostSignificantBit == 2 ^ (RegisterBits - 1)

\* the reference before it has seen a reference: F empty frames
RegisterInit(F) ==
    [pages |-> [i \in 1..F |-> -1], reg |-> [i \in 1..F |-> 0],
     fault |-> FALSE, victims |-> <<>>, faults |-> 0]

\* the smallest position of seq that holds v, 0 when none does
FirstAt(seq, v) ==
    IF \E i \in 1..Len(seq) : seq[i] = v
    THEN CHOOSE i \in 1..Len(seq) :
             seq[i] = v /\ \A j \in 1..(i - 1) : seq[j] # v
    ELSE 0

\* the smallest register, ties to the smallest index
SmallestRegister(reg) ==
    CHOOSE i \in 1..Len(reg) :
        /\ \A j \in 1..Len(reg) : reg[i] <= reg[j]
        /\ \A j \in 1..(i - 1) : reg[j] > reg[i]

SetBit(r) == IF r >= MostSignificantBit THEN r ELSE r + MostSignificantBit

Shifted(s) ==
    [i \in 1..Len(s.reg) |->
        IF s.pages[i] # -1 THEN s.reg[i] \div 2 ELSE s.reg[i]]

\* one reference of the reference AGING
RegisterStep(s, page, reg, hit, empty, v) ==
    IF hit # 0
    THEN [s EXCEPT !.reg = [reg EXCEPT ![hit] = SetBit(@)], !.fault = FALSE]
    ELSE IF empty # 0
    THEN [s EXCEPT !.pages[empty] = page, !.reg = [reg EXCEPT ![empty] = 0],
                   !.fault = TRUE, !.faults = @ + 1]
    ELSE [s EXCEPT !.pages[v] = page, !.reg = [reg EXCEPT ![v] = 0],
                   !.fault = TRUE, !.faults = @ + 1,
                   !.victims = Append(@, [index |-> v - 1, page |-> s.pages[v]])]

RECURSIVE RegisterRun(_, _, _)
RegisterRun(s, refs, k) ==
    IF k > Len(refs) THEN s
    ELSE RegisterRun(
             RegisterStep(s, refs[k].pageNum, Shifted(s),
                          FirstAt(s.pages, refs[k].pageNum),
                          FirstAt(s.pages, -1),
                          SmallestRegister(Shifted(s))),
             refs, k + 1)

\* the reference after the references processed so far
RegisterAging == RegisterRun(RegisterInit(numFrames), SubSeq(pageRefs, 1, counter), 1)

AgingVictims ==
    [k \in 1..Len(Policy("AGING").data.victimList) |->
        [index |-> Policy("AGING").data.victimList[k].index,
         page  |-> Policy("AGING").data.victimList[k].page]]

AgingAgrees(ref) ==
    /\ (returned["AGING"] = "fault") <=> ref.fault
    /\ PageSeq(Policy("AGING").data.pageTable) = ref.pages
    /\ AgingVictims = ref.victims
    /\ Policy("AGING").data.misses = ref.faults
    /\ Policy("AGING").data.hits = counter - ref.faults

C31_AgingIsShiftRegister ==
    (algoCode = "A" /\ pc \in {"running", "done"} /\ counter >= 1
        /\ counter <= RegisterRefs)
        => AgingAgrees(RegisterAging)

\* on the last reference of a trace, AGING has evicted a frame other than
\* the first whose page had been hit, in favour of a frame hit later
C31_Witness ==
    /\ algoCode = "A" /\ pc = "done" /\ counter = RegisterRefs
    /\ \E k \in 1..Len(Policy("AGING").data.victimList) :
          /\ Policy("AGING").data.victimList[k].index # 0
          /\ Policy("AGING").data.victimList[k].extra # 0

(***************************************************************************)
(* C32: ties are broken towards the smallest index. When FIFO, NFU, AGING  *)
(* or MFU evicts and several frames have the victim's extra, or OPTIMAL    *)
(* evicts and several pages have the victim's next use, the frame evicted  *)
(* is the one of them with the smallest index; and on a miss with several  *)
(* EMPTY frames the page goes into the EMPTY frame with the smallest       *)
(* index.                                                                  *)
(***************************************************************************)
\* the position in the table of the frame evicted in this step: the frame
\* of the snapshot logged, which is also the only frame whose page changed
VictimPos(label) == Last(Policy(label).data.victimList').index + 1

ReplacedAt(label, pos) ==
    LET t == Policy(label).data.pageTable
        u == Policy(label).data.pageTable'
    IN  /\ pos \in 1..Len(t)
        /\ u[pos].page = lastPageRef'
        /\ Last(Policy(label).data.victimList').page = t[pos].page
        /\ \A i \in 1..Len(t) : i # pos => u[i].page = t[i].page

\* the key the policy compares for the frame at position i of its table
\* before the step; aging() compares the extras it has just halved
VictimKey(label, i) ==
    LET f == Policy(label).data.pageTable[i]
    IN  CASE label = "OPTIMAL" ->
                 NextUse(f.page, [counter |-> counter, pageRefs |-> pageRefs])
          [] label = "AGING" -> f.extra \div 2
          [] OTHER -> f.extra

TieLabels == {"FIFO", "NFU", "AGING", "MFU", "OPTIMAL"}

EmptyPositions(frames) == {i \in 1..Len(frames) : frames[i].page = -1}

C32_Step ==
    IsStep =>
        /\ \A l \in TieLabels :
              Evicts(l) =>
                  /\ ReplacedAt(l, VictimPos(l))
                  /\ \A i \in 1..numFrames :
                        VictimKey(l, i) = VictimKey(l, VictimPos(l))
                            => VictimPos(l) <= i
        /\ \A l \in TableLabels :
              (returned'[l] = "fault"
                  /\ EmptyPositions(Policy(l).data.pageTable) # {}) =>
                  \E e \in EmptyPositions(Policy(l).data.pageTable) :
                      /\ \A i \in EmptyPositions(Policy(l).data.pageTable) : e <= i
                      /\ Policy(l).data.pageTable'[e].page = lastPageRef'
                      /\ \A i \in 1..numFrames :
                            i # e => Policy(l).data.pageTable'[i].page
                                         = Policy(l).data.pageTable[i].page

C32_TiesToSmallestIndex == [][C32_Step]_vars

\* NFU has just evicted frame 0 while the other frame had the same count,
\* and OPTIMAL has just evicted frame 0 while neither its page nor the page
\* of the other frame is used again
C32_Witness ==
    /\ pc = "running" /\ numFrames = 2 /\ counter >= 1
    /\ returned["NFU"] = "fault" /\ returned["OPTIMAL"] = "fault"
    /\ Policy("NFU").data.victimList # <<>>
    /\ Policy("OPTIMAL").data.victimList # <<>>
    /\ LET v == Last(Policy("NFU").data.victimList)
           t == Policy("NFU").data.pageTable
       IN  /\ v.index = 0 /\ t[1].page = lastPageRef
           /\ v.page # lastPageRef /\ v.page # t[2].page
           /\ t[2].extra = v.extra
    /\ LET v == Last(Policy("OPTIMAL").data.victimList)
           t == Policy("OPTIMAL").data.pageTable
       IN  /\ v.index = 0 /\ t[1].page = lastPageRef /\ t[1].extra = counter - 1
           /\ \A k \in (counter + 1)..Len(pageRefs) :
                 pageRefs[k].pageNum \notin {v.page, t[2].page}

(***************************************************************************)
(* C33: an LFRU miss for page r. If privileged has an EMPTY slot, r is     *)
(* installed there and nothing else changes. Otherwise the privileged      *)
(* frame with the smallest lastUsed (page d) is emptied; if unprivileged   *)
(* is full, its frame with the smallest (frequency, lastUsed) is emptied   *)
(* and that page leaves the cache; then d is installed in unprivileged and *)
(* r in privileged, each with frequency 1 and a fresh tick. Exactly one    *)
(* page leaves the cache iff both partitions were full, and it is never r  *)
(* or d.                                                                   *)
(***************************************************************************)
\* frames is before with the frame at pos replaced by one that holds page
\* with frequency 1 and a tick later than every tick of both partitions
\* before the step
InstalledAt(frames, before, pos, page) ==
    /\ frames[pos].page = page
    /\ frames[pos].frequency = 1
    /\ FreshTick(frames[pos].lastUsed, Privileged)
    /\ FreshTick(frames[pos].lastUsed, Unprivileged)
    /\ \A i \in 1..Len(before) : i # pos => frames[i] = before[i]

\* the frame at pos has the smallest lastUsed of the partition
IsLeastRecent(frames, pos) ==
    \A i \in 1..Len(frames) : frames[pos].lastUsed <= frames[i].lastUsed

\* the frame at pos has the smallest (frequency, lastUsed) of the partition
IsLeastFrequent(frames, pos) ==
    \A i \in 1..Len(frames) :
        i # pos => LfuBefore(frames[pos], frames[i])

LfruMiss == IsStep /\ Called("LFRU")' /\ returned'["LFRU"] = "fault"

C33_IntoEmptySlot ==
    /\ Unprivileged' = Unprivileged
    /\ \E e \in EmptyPositions(Privileged) :
          InstalledAt(Privileged', Privileged, e, lastPageRef')
    /\ Resident("LFRU")' = Resident("LFRU") \cup {lastPageRef'}

C33_Demotes(dp) ==
    /\ IsLeastRecent(Privileged, dp)
    /\ InstalledAt(Privileged', Privileged, dp, lastPageRef')
    /\ IF hasSpace(Unprivileged)
       THEN /\ \E e \in EmptyPositions(Unprivileged) :
                  InstalledAt(Unprivileged', Unprivileged, e, Privileged[dp].page)
            /\ Resident("LFRU")' = Resident("LFRU") \cup {lastPageRef'}
       ELSE \E up \in 1..Len(Unprivileged) :
               /\ IsLeastFrequent(Unprivileged, up)
               /\ InstalledAt(Unprivileged', Unprivileged, up, Privileged[dp].page)
               /\ Unprivileged[up].page \notin {lastPageRef', Privileged[dp].page}
               /\ Resident("LFRU")' =
                      (Resident("LFRU") \cup {lastPageRef'})
                          \ {Unprivileged[up].page}
    /\ Unprivileged'[FrameOf(Unprivileged', Privileged[dp].page)].lastUsed
           < Privileged'[dp].lastUsed

C33_Step ==
    LfruMiss =>
        /\ IF hasSpace(Privileged)
           THEN C33_IntoEmptySlot
           ELSE \E dp \in 1..Len(Privileged) : C33_Demotes(dp)
        /\ (Cardinality(Resident("LFRU") \ Resident("LFRU")') = 1)
               <=> Full("LFRU")
        /\ Cardinality(Resident("LFRU") \ Resident("LFRU")') <= 1

C33_LfruMiss == [][C33_Step]_vars

\* the scan has filled both partitions and the next reference was to a new
\* page: page 0, the first demoted, has left the cache, page 5, the oldest
\* of privileged, is in unprivileged and the new page in privileged
C33_Witness ==
    /\ algoCode = "f" /\ returned["LFRU"] = "fault"
    /\ counter = LfruCapacity + 1
    /\ lastPageRef = LfruCapacity
    /\ lastPageRef \in PagesOf(Privileged)
    /\ PRIVILEGED_PARTITION_SIZE \in PagesOf(Unprivileged)
    /\ 0 \notin Resident("LFRU")
    /\ Cardinality(Resident("LFRU")) = LfruCapacity

(***************************************************************************)
(* C34: in LFRU every non-EMPTY frame of either partition has frequency 1  *)
(* after every step, no step increments a frequency; so the victim of the  *)
(* unprivileged partition is the frame with the smallest lastUsed, which   *)
(* is the page that was demoted longest ago.                               *)
(***************************************************************************)
FrequencyOne(frames) ==
    \A i \in 1..Len(frames) :
        frames[i].frequency = IF frames[i].page = -1 THEN 0 ELSE 1

C34_FrequencyOne == FrequencyOne(Privileged) /\ FrequencyOne(Unprivileged)

\* lastUsed orders the pages of unprivileged by their demotion: a page
\* that stays keeps its tick, a page that arrives gets a tick later than
\* that of every page that stays
C34_DemotionOrder ==
    \A i \in 1..Len(Unprivileged) :
        Unprivileged'[i].page # -1 =>
            IF Unprivileged'[i].page \in PagesOf(Unprivileged)
            THEN Unprivileged'[i] = Unprivileged[i]
            ELSE \A j \in 1..Len(Unprivileged) :
                     (j # i /\ Unprivileged'[j].page # -1)
                         => Unprivileged[j].lastUsed < Unprivileged'[i].lastUsed

\* a page that leaves the cache was the unprivileged page with the smallest
\* lastUsed
C34_VictimIsOldest ==
    \A p \in Resident("LFRU") \ Resident("LFRU")' :
        /\ p \in PagesOf(Unprivileged)
        /\ \A j \in 1..Len(Unprivileged) :
              Unprivileged[FrameOf(Unprivileged, p)].lastUsed
                  <= Unprivileged[j].lastUsed

C34_Step ==
    (IsStep /\ Called("LFRU")') =>
        /\ C34_FrequencyOne'
        /\ C34_DemotionOrder
        /\ C34_VictimIsOldest
        /\ \A i \in 1..Len(Privileged) :
              Privileged'[i].frequency <= Max(1, Privileged[i].frequency)

C34_LfruFrequencyIsOne == []C34_FrequencyOne /\ [][C34_Step]_vars

\* after the scan, a hit in privileged and then a miss: page 0, the first
\* page demoted, has left the cache
C34_Witness ==
    /\ algoCode = "f" /\ counter = LfruCapacity + 2
    /\ Policy("LFRU").data.hits = 1
    /\ returned["LFRU"] = "fault"
    /\ lastPageRef >= LfruCapacity
    /\ 0 \notin Resident("LFRU")
    /\ (LfruCapacity - 1) \in PagesOf(Privileged)
    /\ Cardinality(Resident("LFRU")) = LfruCapacity

(***************************************************************************)
(* C35: an LFRU hit never removes a page from the cache. Whenever the      *)
(* unprivileged partition holds a page the privileged partition is full,   *)
(* so a hit on a page r of unprivileged exchanges r with the least         *)
(* recently used page of privileged, without an eviction from              *)
(* unprivileged, and after every LFRU step that returns Hit the two        *)
(* partitions together hold the same set of pages as before the step.      *)
(***************************************************************************)
C35_PrivilegedFillsFirst ==
    PagesOf(Unprivileged) # {} => ~hasSpace(Privileged)

\* the hit on a page of unprivileged: d, the page of the privileged frame
\* at dp, and the page referenced change places
C35_Exchanges(dp) ==
    /\ IsLeastRecent(Privileged, dp)
    /\ Privileged'[dp].page = lastPageRef'
    /\ PagesOf(Privileged)' =
           (PagesOf(Privileged) \ {Privileged[dp].page}) \cup {lastPageRef'}
    /\ PagesOf(Unprivileged)' =
           (PagesOf(Unprivileged) \ {lastPageRef'}) \cup {Privileged[dp].page}
    /\ Cardinality(PagesOf(Unprivileged)') = Cardinality(PagesOf(Unprivileged))

C35_Step ==
    (IsStep /\ Called("LFRU")' /\ returned'["LFRU"] = "hit") =>
        /\ Resident("LFRU")' = Resident("LFRU")
        /\ Cardinality(EmptyPositions(Privileged'))
               = Cardinality(EmptyPositions(Privileged))
        /\ Cardinality(EmptyPositions(Unprivileged'))
               = Cardinality(EmptyPositions(Unprivileged))
        /\ lastPageRef' \in PagesOf(Unprivileged) =>
               \E dp \in 1..Len(Privileged) : C35_Exchanges(dp)

C35_LfruHitKeepsPages == []C35_PrivilegedFillsFirst /\ [][C35_Step]_vars

\* the reference after the scan hit page 0 in the full unprivileged
\* partition: page 0 and page 5, the oldest of privileged, changed places
\* and all ten pages are still resident
C35_Witness ==
    /\ algoCode = "f" /\ counter = LfruCapacity + 1
    /\ returned["LFRU"] = "hit" /\ lastPageRef = 0
    /\ 0 \in PagesOf(Privileged)
    /\ PRIVILEGED_PARTITION_SIZE \in PagesOf(Unprivileged)
    /\ Resident("LFRU") = 0..(LfruCapacity - 1)

(***************************************************************************)
(* C36: for every policy that uses the page table of F frames (all but     *)
(* LFRU), a frame that has received a page never becomes EMPTY again and   *)
(* EMPTY frames are filled in increasing index order: after every step the *)
(* non-EMPTY frames are exactly the indices 0..k-1 for some k <= F, and k  *)
(* never decreases during a run.                                           *)
(***************************************************************************)
\* the number of frames of the table that hold a page
Occupied(frames) == Cardinality({i \in 1..Len(frames) : frames[i].page # -1})

\* the frames that hold a page are the first k of the table for some k: no
\* EMPTY frame has a frame that holds a page behind it
IsPrefix(frames) ==
    \A i \in 1..(Len(frames) - 1) :
        frames[i].page = -1 => frames[i + 1].page = -1

C36_Prefix ==
    \A l \in TableLabels :
        /\ Len(Policy(l).data.pageTable) = numFrames
        /\ IsPrefix(Policy(l).data.pageTable)

C36_Step ==
    ~Configuring =>
        \A l \in TableLabels :
            \A i \in 1..numFrames :
                Policy(l).data.pageTable[i].page # -1
                    => Policy(l).data.pageTable'[i].page # -1

C36_FramesFillInOrder == []C36_Prefix /\ [][C36_Step]_vars

\* LRU has run on the trace with fewer pages than frames: the first two of
\* its ten frames hold the pages, the others are EMPTY
C36_Witness ==
    /\ pc = "done" /\ algoCode = "L" /\ numFrames = ExcessFrames
    /\ Occupied(Policy("LRU").data.pageTable) = 2
    /\ Policy("LRU").data.hits = 2
    /\ Policy("LRU").data.pageTable[1].page = 0
    /\ Policy("LRU").data.pageTable[2].page = 1

(***************************************************************************)
(* C37: the AGING register never overflows. After every AGING step every   *)
(* frame's extra satisfies 0 <= extra <= 19999999, for traces of any       *)
(* length and any pattern of hits, so it always fits a 32-bit signed int.  *)
(***************************************************************************)
\* the largest value x / 2 + AGING_HIT_BONUS can take from a value it has
\* produced
AgingCeiling == 2 * AGING_HIT_BONUS - 1

C37_AgingNeverOverflows ==
    /\ AgingCeiling <= INT_MAX
    /\ \A i \in 1..Len(Policy("AGING").data.pageTable) :
          /\ Policy("AGING").data.pageTable[i].extra >= 0
          /\ Policy("AGING").data.pageTable[i].extra <= AgingCeiling
    /\ \A k \in 1..Len(Policy("AGING").data.victimList) :
          /\ Policy("AGING").data.victimList[k].extra >= 0
          /\ Policy("AGING").data.victimList[k].extra <= AgingCeiling

\* a page hit on every reference has brought its register to the ceiling
C37_Witness ==
    /\ algoCode = "A" /\ pc = "running"
    /\ returned["AGING"] = "hit"
    /\ Policy("AGING").data.pageTable[1].extra = AgingCeiling
    /\ Policy("AGING").data.hits < counter

(***************************************************************************)
(* C38: setConfiguration discards all simulation state but not the trace.  *)
(* After it returns every policy is deselected, has hits = misses = 0, an  *)
(* all-EMPTY page table of the new size, an empty victim log and, for      *)
(* LFRU, two all-EMPTY partitions; the policy list is in declaration       *)
(* order, the loaded page references are unchanged, and CLOCK starts from  *)
(* frame 0 again. A selection made before is lost: a runSimulation that    *)
(* follows calls no policy until selectAlgorithm has been called again.    *)
(***************************************************************************)
\* the policy list as initializeAlgorithms leaves it
C38_Rebuilt ==
    /\ Len(algorithms) = Len(Labels)
    /\ \A i \in 1..Len(algorithms) :
          /\ algorithms[i].label = Labels[i]
          /\ ~algorithms[i].selected
          /\ algorithms[i].data.hits = 0 /\ algorithms[i].data.misses = 0
          /\ Len(algorithms[i].data.pageTable) = numFrames
          /\ AllEmpty(algorithms[i].data.pageTable)
          /\ algorithms[i].data.victimList = <<>>
          /\ \A k \in 1..Len(algorithms[i].data.lfruData) :
                /\ AllEmpty(algorithms[i].data.lfruData[k].privileged)
                /\ AllEmpty(algorithms[i].data.lfruData[k].unprivileged)
    /\ Len(Privileged) = PRIVILEGED_PARTITION_SIZE
    /\ Len(Unprivileged) = UNPRIVILEGED_PARTITION_SIZE

NoneSelected == \A l \in LabelSet : ~Policy(l).selected

\* what setConfiguration leaves of the policies and of the trace
C38_PoliciesRebuilt ==
    Configuring => (C38_Rebuilt' /\ pageRefs' = pageRefs)

\* a pass of processPageReference with no policy selected
C38_NothingProcessed ==
    (IsStep /\ NoneSelected) =>
        (algorithms' = algorithms /\ returned' = NoneReturned)

C38_Step ==
    /\ C38_PoliciesRebuilt
    /\ C38_NothingProcessed
    /\ Configuring => StartHand' = 0

C38_SetConfigurationDiscardsState == [][C38_Step]_vars

(***************************************************************************)
(* C39: runSimulation does not reset policy state. Called a second time    *)
(* on the same simulator with no setConfiguration in between, it starts    *)
(* from the page tables, counters and victim logs the first run left, so   *)
(* each selected policy ends with hits + misses equal to the sum of the    *)
(* references processed in both runs, while the reference counter, and     *)
(* with it the insertion ticks of FIFO, restarts at 0.                     *)
(***************************************************************************)
\* the references the policy had counted when the second run began
CountedBefore(label) ==
    previous.results[label].hits + previous.results[label].misses

IsPrefixOf(short, long) ==
    Len(short) <= Len(long) /\ SubSeq(long, 1, Len(short)) = short

\* in the second run and when it has ended
C39_Accumulates ==
    (stale /\ pc \in {"running", "done"} /\ algoCode \in Codes) =>
        \A l \in LabelSet :
            /\ CountedBefore(l) \in {0, maxPageCalls}
            /\ IsPrefixOf(previous.results[l].victims,
                          PageSeq(Policy(l).data.victimList))
            /\ IF Policy(l).selected
               THEN Policy(l).data.hits + Policy(l).data.misses
                        = CountedBefore(l) + counter
               ELSE Policy(l).data.hits + Policy(l).data.misses
                        = CountedBefore(l)
            /\ Policy(l).data.hits >= previous.results[l].hits
            /\ Policy(l).data.misses >= previous.results[l].misses

C39_Step ==
    /\ (pc \in {"done", "reselected"}
           /\ pc' \in {"reselected", "invalid_argument", "running"}) =>
          \A l \in LabelSet : Policy(l).data' = Policy(l).data
    /\ (pc = "reselected" /\ pc' = "running") => counter' = 0
    /\ (stale /\ IsStep /\ returned'["FIFO"] = "fault") =>
          Policy("FIFO").data.pageTable'[
              FrameOf(Policy("FIFO").data.pageTable', lastPageRef')].extra
                  = counter
    /\ (stale /\ pc = "running" /\ pc' = "done") => counter = maxPageCalls

C39_SecondRunContinues == []C39_Accumulates /\ [][C39_Step]_vars

\* the second run has ended: every policy has counted the references of
\* both runs, FIFO has evicted in both, and the page FIFO loaded last has
\* a tick of the second run that is smaller than one of the first
C39_Witness ==
    /\ stale /\ pc = "done" /\ counter = MaxRefs
    /\ \A l \in LabelSet : Policy(l).data.hits + Policy(l).data.misses = 2 * MaxRefs
    /\ previous.results["FIFO"].victims # <<>>
    /\ Len(Policy("FIFO").data.victimList) > Len(previous.results["FIFO"].victims)
    /\ \E i, j \in 1..numFrames :
          /\ Policy("FIFO").data.pageTable[i].page = lastPageRef
          /\ Policy("FIFO").data.pageTable[i].extra
                 < Policy("FIFO").data.pageTable[j].extra

(***************************************************************************)
(* C40: LFRU ignores the configured frame count. For every trace its       *)
(* Hit/Fault sequence and the contents of its partitions are the same for  *)
(* every F: it uses only its two partitions of 5 + 5 frames and never      *)
(* reads or writes its page table of F frames, which stays all-EMPTY       *)
(* throughout the run.                                                     *)
(***************************************************************************)
\* the simulator's LFRU as setConfiguration(F) leaves it in a process that
\* has not run a policy
LfruConfigured(F) ==
    [data     |-> [AlgorithmData(F) EXCEPT !.lfruData = <<LFRUData>>],
     m        |-> [steady |-> 0, timeCounter |-> 0, clockHand |-> 0,
                   clockExamined |-> 0, clockCleared |-> {}],
     returned |-> "none"]

\* LFRU alone with F frames on the references k.. of refs, from s
RECURSIVE LfruRun(_, _, _, _)
LfruRun(s, refs, k, F) ==
    IF k > Len(refs) THEN s
    ELSE LfruRun(
             AccountAlone(
                 lfru(s.data, s.m,
                      [lastPageRef |-> refs[k].pageNum, counter |-> k - 1,
                       pageRefs |-> pageRefs, numFrames |-> F, rnd |-> 0])),
             refs, k + 1, F)

\* the run of LFRU with one frame configured on the references processed
LfruWithOneFrame == LfruRun(LfruConfigured(1), SubSeq(pageRefs, 1, counter), 1, 1)

\* page, frequency and lastUsed of each frame of a partition
Contents(frames) ==
    [i \in 1..Len(frames) |->
        <<frames[i].page, frames[i].frequency, frames[i].lastUsed>>]

PagesAndCounts(frames) ==
    [i \in 1..Len(frames) |-> <<frames[i].page, frames[i].frequency>>]

SameLfru(other) ==
    /\ returned["LFRU"] = other.returned
    /\ Policy("LFRU").data.hits = other.data.hits
    /\ Policy("LFRU").data.misses = other.data.misses
    /\ PagesAndCounts(Privileged) = PagesAndCounts(other.data.lfruData[1].privileged)
    /\ PagesAndCounts(Unprivileged) = PagesAndCounts(other.data.lfruData[1].unprivileged)
    /\ algoCode = "f" =>
          /\ Contents(Privileged) = Contents(other.data.lfruData[1].privileged)
          /\ Contents(Unprivileged) = Contents(other.data.lfruData[1].unprivileged)

C40_LfruIgnoresFrameCount ==
    /\ Len(Privileged) = PRIVILEGED_PARTITION_SIZE
    /\ Len(Unprivileged) = UNPRIVILEGED_PARTITION_SIZE
    /\ Len(Policy("LFRU").data.pageTable) = numFrames
    /\ Policy("LFRU").data.pageTable = AlgorithmData(numFrames).pageTable
    /\ (Policy("LFRU").selected /\ pc \in {"running", "done"} /\ counter >= 1)
           => SameLfru(LfruWithOneFrame)

\* LFRU alone with two frames configured has gone through the scan and two
\* more references with a hit and an eviction: ten pages are resident and
\* its two-frame table is EMPTY
C40_Witness ==
    /\ algoCode = "f" /\ pc = "done" /\ numFrames = MaxFrames
    /\ counter = LfruCapacity + MaxTail
    /\ Cardinality(Resident("LFRU")) = LfruCapacity
    /\ Policy("LFRU").data.hits >= 1
    /\ Policy("LFRU").data.misses > LfruCapacity
    /\ AllEmpty(Policy("LFRU").data.pageTable)

====
